---- MODULE Spec2Model ----
(***************************************************************************)
(* go2bad: the rename engine.  One package is renamed by renamer.Rename:   *)
(* the lexical scope model (internal/renamer/scope), the selector model    *)
(* (internal/renamer/selection), the identifier generator (internal/idgen) *)
(* and the keep-list flag (flags.keepFlag).                                *)
(*                                                                         *)
(* An identifier is a sequence of one-character strings, so that the       *)
(* first-character tests of the code (exported, Test prefix, seed classes) *)
(* are computed and not assumed.  A token.Pos is a positive integer, 0 is  *)
(* token.NoPos.                                                            *)
(***************************************************************************)
EXTENDS Integers, Sequences, FiniteSets, TLC

VARIABLES
    prog,           \* the package handed to Rename (its typed AST is static)
    pkgPath,        \* pkg.PkgPath, a sequence of path elements
    renameExported, \* Rename's renameExported argument
    keepNames,      \* keepFlag.names
    keepPkgs,       \* keepFlag.pkgs: package key -> set of names
    identName,      \* ast.Ident.Name of every identifier node, by position
    objName,        \* types.Object.Name() of the object an identifier denotes
    useRef,         \* TypesInfo.Uses: use position -> position of its object
    scopeDefs,      \* scope.defs of every scope: name -> position
    scopeUses,      \* scope.uses of every scope: name -> list of defUsePos
    infoDefs,       \* Info.Defs
    infoUses,       \* Info.Uses
    selTypes,       \* the typ values of the selector model, by type id
    renamed,        \* Rename's local map renamed: position -> new name
    xRenamed,       \* Rename's local map xRenamed
    visited,        \* the definitions the range loop has been through
    cur,            \* the definition of the current loop iteration (0: none)
    curExported,    \* the local variable exported of the iteration
    stack,          \* the odometer of the generator closure next
    lastDraw,       \* the candidate newName of the last draw
    args,           \* the values of the -keep flags of the command line
    argi,           \* the index of the next -keep value flag.Parse hands to Set
    pc,             \* where the program is
    gen,            \* a closure of NewExported or NewUnexported and its names
    mm,             \* a useMap (multiMap[defUsePos]) used on its own
    imp,            \* a call of canImport: its arguments and its result
    run,            \* a run of rename over the loaded packages
    grp,            \* a call of GroupMethods: its methods, groups and result
    mt,             \* a call of matchType: its arguments and its result
    cd,             \* a call of CanDef on a scope: its arguments and its result
    sel,            \* a Selection used on its own: its types and the last call
    dq              \* a depth query on a typ: its types, arguments and result

\* The variables of Rename and of the command line.
driverVars == <<prog, pkgPath, renameExported, keepNames, keepPkgs, identName, objName,
                useRef, scopeDefs, scopeUses, infoDefs, infoUses, selTypes, renamed,
                xRenamed, visited, cur, curExported, stack, lastDraw, args, argi, pc>>

\* The variables of the packages run on their own.
libVars == <<gen, mm, imp, run, grp, mt, cd, sel, dq>>

vars == <<driverVars, libVars>>

\* Only the packages named in S are run on their own.
LibOffExcept(S) ==
    /\ IF "gen" \in S THEN TRUE ELSE gen = "off"
    /\ IF "mm" \in S THEN TRUE ELSE mm = "off"
    /\ IF "imp" \in S THEN TRUE ELSE imp = "off"
    /\ IF "run" \in S THEN TRUE ELSE run = "off"
    /\ IF "grp" \in S THEN TRUE ELSE grp = "off"
    /\ IF "mt" \in S THEN TRUE ELSE mt = "off"
    /\ IF "cd" \in S THEN TRUE ELSE cd = "off"
    /\ IF "sel" \in S THEN TRUE ELSE sel = "off"
    /\ IF "dq" \in S THEN TRUE ELSE dq = "off"

\* No package is run on its own.
LibOff == LibOffExcept({})

NoPos == 0

(***************************************************************************)
(* Characters.                                                             *)
(***************************************************************************)
UpperChars == {"A","B","C","D","E","F","G","H","I","J","K","L","M",
               "N","O","P","Q","R","S","T","U","V","W","X","Y","Z"}
LowerChars == {"a","b","c","d","e","f","g","h","i","j","k","l","m",
               "n","o","p","q","r","s","t","u","v","w","x","y","z"}
DigitChars == {"0","1","2","3","4","5","6","7","8","9"}
\* [_\pL\p{Nd}]
IdChars == UpperChars \cup LowerChars \cup DigitChars \cup {"_"}

\* ast.Ident.IsExported: the first character is an upper-case letter.
IsExported(name) == Len(name) > 0 /\ name[1] \in UpperChars

RECURSIVE Concat(_)
\* strings.Builder over a list of seeds.
Concat(ss) == IF ss = <<>> THEN <<>> ELSE Head(ss) \o Concat(Tail(ss))

(***************************************************************************)
(* internal/idgen                                                          *)
(***************************************************************************)
\* reLu: ^\p{Lu}[_\pL\p{Nd}]*$
MatchLu(e) == /\ Len(e) >= 1
              /\ e[1] \in UpperChars
              /\ \A i \in 2..Len(e) : e[i] \in IdChars
\* reLlmot: ^[_\p{Ll}\p{Lm}\p{Lo}\p{Lt}]+[_\pL\p{Nd}]*$
MatchLlmot(e) == /\ Len(e) >= 1
                 /\ e[1] \in LowerChars \cup {"_"}
                 /\ \A i \in 2..Len(e) : e[i] \in IdChars
\* reLNd: ^[_\pL\p{Nd}]+$
MatchLNd(e) == /\ Len(e) >= 1
               /\ \A i \in 1..Len(e) : e[i] \in IdChars

RECURSIVE NewGeneratorLoop(_, _, _)
\* The loop of NewGenerator over elements[i..], with the generator so far.
NewGeneratorLoop(elements, i, g) ==
    IF i > Len(elements) THEN g
    ELSE LET elem == elements[i] IN
         IF elem \in g.existing THEN NewGeneratorLoop(elements, i + 1, g)
         ELSE LET g1 == [g EXCEPT !.existing = @ \cup {elem}] IN
              IF MatchLu(elem)
              THEN NewGeneratorLoop(elements, i + 1,
                     [g1 EXCEPT !.lu = Append(@, elem), !.all = Append(@, elem)])
              ELSE IF MatchLlmot(elem)
              THEN NewGeneratorLoop(elements, i + 1,
                     [g1 EXCEPT !.lmot = Append(@, elem), !.all = Append(@, elem)])
              ELSE IF MatchLNd(elem)
              THEN NewGeneratorLoop(elements, i + 1, [g1 EXCEPT !.all = Append(@, elem)])
              ELSE NewGeneratorLoop(elements, i + 1, g1)

NewGenerator(elements) ==
    LET g  == NewGeneratorLoop(elements, 1,
                [lu |-> <<>>, lmot |-> <<>>, all |-> <<>>, existing |-> {}])
        lu   == IF Len(g.lu) = 0 THEN << <<"A">> >> ELSE g.lu
        lmot == IF Len(g.lmot) = 0 THEN << <<"_">> >> ELSE g.lmot
        all  == IF Len(g.all) = 0 THEN lu \o lmot ELSE g.all
    IN  [lu |-> lu, lmot |-> lmot, all |-> all]

\* The built-ins of the list reserved: the names of types.Universe.
reservedBuiltins == {
    <<"a","n","y">>, <<"b","o","o","l">>, <<"b","y","t","e">>,
    <<"c","o","m","p","a","r","a","b","l","e">>, <<"c","o","m","p","l","e","x","6","4">>,
    <<"c","o","m","p","l","e","x","1","2","8">>, <<"e","r","r","o","r">>,
    <<"f","l","o","a","t","3","2">>, <<"f","l","o","a","t","6","4">>, <<"i","n","t">>,
    <<"i","n","t","8">>, <<"i","n","t","1","6">>, <<"i","n","t","3","2">>,
    <<"i","n","t","6","4">>, <<"r","u","n","e">>, <<"s","t","r","i","n","g">>,
    <<"u","i","n","t">>, <<"u","i","n","t","8">>, <<"u","i","n","t","1","6">>,
    <<"u","i","n","t","3","2">>, <<"u","i","n","t","6","4">>, <<"u","i","n","t","p","t","r">>,
    <<"t","r","u","e">>, <<"f","a","l","s","e">>, <<"i","o","t","a">>, <<"n","i","l">>,
    <<"a","p","p","e","n","d">>, <<"c","a","p">>, <<"c","l","e","a","r">>,
    <<"c","l","o","s","e">>, <<"c","o","m","p","l","e","x">>, <<"c","o","p","y">>,
    <<"d","e","l","e","t","e">>, <<"i","m","a","g">>, <<"l","e","n">>, <<"m","a","k","e">>,
    <<"m","a","x">>, <<"m","i","n">>, <<"n","e","w">>, <<"p","a","n","i","c">>,
    <<"p","r","i","n","t">>, <<"p","r","i","n","t","l","n">>, <<"r","e","a","l">>,
    <<"r","e","c","o","v","e","r">>
    }

\* The keywords of the list reserved.
reservedKeywords == {
    <<"b","r","e","a","k">>, <<"d","e","f","a","u","l","t">>, <<"f","u","n","c">>,
    <<"i","n","t","e","r","f","a","c","e">>, <<"s","e","l","e","c","t">>, <<"c","a","s","e">>,
    <<"d","e","f","e","r">>, <<"g","o">>, <<"m","a","p">>, <<"s","t","r","u","c","t">>,
    <<"c","h","a","n">>, <<"e","l","s","e">>, <<"g","o","t","o">>,
    <<"p","a","c","k","a","g","e">>, <<"s","w","i","t","c","h">>, <<"c","o","n","s","t">>,
    <<"f","a","l","l","t","h","r","o","u","g","h">>, <<"i","f">>, <<"r","a","n","g","e">>,
    <<"t","y","p","e">>, <<"c","o","n","t","i","n","u","e">>, <<"f","o","r">>,
    <<"i","m","p","o","r","t">>, <<"r","e","t","u","r","n">>, <<"v","a","r">>
    }

\* The list reserved: predeclared identifiers and keywords.
reserved == reservedBuiltins \cup reservedKeywords

\* forbiddenUnexported: reserved plus the caller's names.
forbiddenUnexported(userDefined) == reserved \cup userDefined

RECURSIVE incCarry(_, _, _)
\* The carry loop of incIndexes over indexes[:len-1], from i on.
incCarry(indexes, i, base) ==
    IF i > Len(indexes) - 1 THEN indexes
    ELSE IF indexes[i] > base - 1
         THEN incCarry([indexes EXCEPT ![i + 1] = @ + 1, ![i] = 0], i + 1, base)
         ELSE incCarry(indexes, i + 1, base)

\* incIndexes: indexes is the reversed odometer, its last digit has base0.
incIndexes(indexes, base0, base) ==
    LET s1 == [indexes EXCEPT ![1] = @ + 1]
        s2 == incCarry(s1, 1, base)
        n  == Len(s2)
    IN  IF s2[n] > base0 - 1 THEN Append([s2 EXCEPT ![n] = 0], 0) ELSE s2

\* The identifier of an odometer read from its first digit on.
genBuildForward(g, d0, stk) ==
    LET n == Len(stk) IN
    d0[stk[n] + 1] \o Concat([k \in 1..(n - 1) |-> g.all[stk[k] + 1]])

\* The identifier genHelper builds from the odometer before incrementing it.
genBuild(g, d0, stk) ==
    LET n == Len(stk) IN
    d0[stk[n] + 1] \o Concat([k \in 1..(n - 1) |-> g.all[stk[n - k] + 1]])

RECURSIVE genHelper(_, _, _, _, _)
\* genHelper: filter is FALSE for a nil forbidden map.  Returns the identifier
\* and the odometer after the call.
genHelper(g, d0, stk, filter, forbidden) ==
    LET id  == genBuild(g, d0, stk)
        nxt == incIndexes(stk, Len(d0), Len(g.all))
    IN  IF ~filter \/ id \notin forbidden
        THEN [id |-> id, stack |-> nxt]
        ELSE genHelper(g, d0, nxt, filter, forbidden)

\* The closure returned by NewUnexported(nil).
NextUnexported(g, stk) == genHelper(g, g.lmot, stk, TRUE, forbiddenUnexported({}))
\* The closure returned by NewExported(nil): forbidden stays nil.
NextExported(g, stk) == genHelper(g, g.lu, stk, FALSE, {})

\* A call of the closure of NewUnexported(forbidden) without the reserved
\* list.
NewUnexportedNoReserved(g, stk, forbidden) ==
    genHelper(g, g.lmot, stk, TRUE, forbidden.names)

\* A call of the closure of NewUnexported(forbidden).  forbidden is
\* [isNil, names]: a nil map has no names.
NewUnexported(g, stk, forbidden) ==
    genHelper(g, g.lmot, stk, TRUE, forbiddenUnexported(forbidden.names))

\* A call of the closure of NewExported(forbidden).
NewExported(g, stk, forbidden) ==
    genHelper(g, g.lu, stk, ~forbidden.isNil, forbidden.names)


(***************************************************************************)
(* internal/renamer/scope: multiMap.  A multimap is a function from the    *)
(* names that are keys to lists; a missing key reads as the nil list.      *)
(***************************************************************************)
\* delete(m, name)
MapDelete(m, name) == [n \in (DOMAIN m) \ {name} |-> m[n]]
\* m[name] = v
MapPut(m, name, v) == [n \in (DOMAIN m) \cup {name} |-> IF n = name THEN v ELSE m[n]]
\* m[name] of a map to positions: the zero value for a missing key.
MapGet(m, name) == IF name \in DOMAIN m THEN m[name] ELSE NoPos

\* multiMap.Lookup
mmLookup(m, name) == IF name \in DOMAIN m THEN m[name] ELSE <<>>

\* multiMap.Add
mmAdd(m, name, entries) == MapPut(m, name, mmLookup(m, name) \o entries)

\* slices2.Filter: the entries f accepts, in order.  A predicate is given by
\* the set of the entries it accepts.
Filter(s, f) ==
    LET accepts(e) == e \in f
    IN  SelectSeq(s, accepts)

\* multiMap.DeleteFunc
mmDeleteFunc(m, name, f) ==
    LET keepIt(e) == e \notin f
        s == SelectSeq(mmLookup(m, name), keepIt)
    IN  IF Len(s) = 0 THEN MapDelete(m, name) ELSE MapPut(m, name, s)

\* useMap.Rename and UseMap.Rename: entries are records with a field Def.
useMapRename(m, name, def, newName) ==
    LET uses == mmLookup(m, name)
        equalDef == {uses[k] : k \in {j \in 1..Len(uses) : uses[j].Def = def}}
        newUses == Filter(uses, equalDef)
        m1 == mmDeleteFunc(m, name, equalDef)
    IN  IF Len(newUses) > 0 THEN mmAdd(m1, newName, newUses) ELSE m1

\* DefMap.Rename: entries are positions.
defMapRename(m, name, def, newName) ==
    LET equalDef == {def}
        defs == Filter(mmLookup(m, name), equalDef)
        m1 == mmDeleteFunc(m, name, equalDef)
    IN  IF Len(defs) > 0 THEN mmAdd(m1, newName, defs) ELSE m1


(***************************************************************************)
(* The packages.  Four one-file packages, each a type-checked Go package   *)
(* given by what go/types reports of it: the scope tree with its extents,  *)
(* TypesInfo.Defs (DefIds, DefObj) and TypesInfo.Uses (UseIds, useRef).    *)
(*                                                                         *)
(* "scoped" (a.go); the names of G, P, V, W and of the two uses vary:      *)
(*     var G = 0                      G @4                                 *)
(*     func F(P int) {                F @10, P @11                         *)
(*         _ = U1                     use @13                              *)
(*         { const V = 0              V @16                                *)
(*           _ = U2 }                 use @20                              *)
(*         const W = 0                W @32                                *)
(*     }                                                                   *)
(* "sel" (s.go):                                                           *)
(*     type t struct{ X int }         t @60, X @62                         *)
(*     type S struct{ t }             S @64, embedded t @66 (def and use)  *)
(*     type i interface{ m() }        i @70, m @72                         *)
(*     type A int                     A @73                                *)
(*     func (A) m() {}                use A @75, m @76                     *)
(*     type B int                     B @80                                *)
(*     func (B) m() {}                use B @82, m @83                     *)
(*     var v S                        v @86, use S @87                     *)
(*     var _ = v.t.X                  uses v @90, t @91, X @92             *)
(* "special" (a_test.go):                                                  *)
(*     package p                      p @101                               *)
(*     import . "iter"                . @102                               *)
(*     import _ "embed"               _ @103                               *)
(*     import "testing"               (no identifier; PkgName @100)        *)
(*     func init() {                  init @105                            *)
(*         switch y := w.(type) {     y @107 (symbolic), use w @108        *)
(*         case int: _ = y } }        use y @112                           *)
(*     func TestA(t *testing.T) {}    TestA @121, t @122,                  *)
(*                                    uses testing @123, T @124            *)
(*     var w any = 1                  w @130                               *)
(* "recv" (r.go):                                                          *)
(*     type L int                     L @140                               *)
(*     func (a *L) pm() {}            a @142, use L @143, pm @144          *)
(***************************************************************************)
Progs == {"scoped", "sel", "special"}

\* The packages of the candidate loop on its own (SpecLoop).
LoopProgs == {"recv", "special"}

\* packages.Package.Syntax: the file scope of the package's one file.
FileOf(p) == CASE p = "scoped" -> "fa" [] p = "sel" -> "fs" [] p = "special" -> "ft"
                 [] p = "recv" -> "fr"

\* The file name of the file scope (token.FileSet.PositionFor(...).Filename).
FileName(f) ==
    CASE f = "fa" -> <<"a",".","g","o">>
      [] f = "fs" -> <<"s",".","g","o">>
      [] f = "ft" -> <<"a","_","t","e","s","t",".","g","o">>
      [] f = "fr" -> <<"r",".","g","o">>

LocalScopes == {"f", "b", "ma", "mb", "fi", "sw", "cc", "ft1", "mr"}
FileScopes == {"fa", "fs", "ft", "fr"}
ScopeIds == {"universe", "pkg"} \cup FileScopes \cup LocalScopes

\* types.Scope.Parent of the scope tree.
ScopeParent ==
    ("pkg" :> "universe") @@ ("fa" :> "pkg") @@ ("fs" :> "pkg") @@ ("ft" :> "pkg") @@
    ("f" :> "fa") @@ ("b" :> "f") @@ ("ma" :> "fs") @@ ("mb" :> "fs") @@
    ("fi" :> "ft") @@ ("sw" :> "fi") @@ ("cc" :> "sw") @@ ("ft1" :> "ft") @@
    ("fr" :> "pkg") @@ ("mr" :> "fr")

\* types.Scope.Children, in source order.
ScopeChildren ==
    ("fa" :> <<"f">>) @@ ("f" :> <<"b">>) @@ ("b" :> <<>>) @@
    ("fs" :> <<"ma", "mb">>) @@ ("ma" :> <<>>) @@ ("mb" :> <<>>) @@
    ("ft" :> <<"fi", "ft1">>) @@ ("fi" :> <<"sw">>) @@ ("sw" :> <<"cc">>) @@
    ("cc" :> <<>>) @@ ("ft1" :> <<>>) @@
    ("fr" :> <<"mr">>) @@ ("mr" :> <<>>)

\* The source extent [pos, end) of a file or local scope.
ScopeExtent ==
    ("fa" :> <<1, 50>>) @@ ("f" :> <<9, 40>>) @@ ("b" :> <<15, 30>>) @@
    ("fs" :> <<59, 99>>) @@ ("ma" :> <<74, 78>>) @@ ("mb" :> <<81, 85>>) @@
    ("ft" :> <<100, 150>>) @@ ("fi" :> <<104, 120>>) @@ ("sw" :> <<106, 119>>) @@
    ("cc" :> <<110, 118>>) @@ ("ft1" :> <<120, 129>>) @@
    ("fr" :> <<139, 160>>) @@ ("mr" :> <<141, 150>>)

\* The scopes of package p, without the universe.
ProgScopes(p) ==
    {"pkg"} \cup
    CASE p = "scoped"  -> {"fa", "f", "b"}
      [] p = "sel"     -> {"fs", "ma", "mb"}
      [] p = "special" -> {"ft", "fi", "sw", "cc", "ft1"}
      [] p = "recv"    -> {"fr", "mr"}

\* The identifiers of TypesInfo.Defs, by position.
DefIds(p) ==
    CASE p = "scoped"  -> {4, 10, 11, 16, 32}
      [] p = "sel"     -> {60, 62, 64, 66, 70, 72, 73, 76, 80, 83, 86}
      [] p = "special" -> {101, 102, 103, 105, 107, 121, 122, 130}
      [] p = "recv"    -> {140, 142, 144}

\* The identifiers of TypesInfo.Uses, by position.
UseIds(p) ==
    CASE p = "scoped"  -> {13, 20}
      [] p = "sel"     -> {66, 75, 82, 87, 90, 91, 92}
      [] p = "special" -> {108, 112, 123, 124}
      [] p = "recv"    -> {143}

\* The object TypesInfo.Defs gives a defining identifier.  kind "nil" is the
\* nil object (package clause, symbolic variable); parent is Object.Parent(),
\* "nil" for fields and methods; recv, params, typeParams, variadic and param0
\* are those of a *types.Func's signature.
Obj(kind, parent) ==
    [kind |-> kind, parent |-> parent, embedded |-> FALSE, recv |-> FALSE,
     params |-> FALSE, typeParams |-> FALSE, variadic |-> FALSE, param0 |-> ""]

DefObj ==
    (4  :> Obj("var", "pkg")) @@
    (10 :> [Obj("func", "pkg") EXCEPT !.params = TRUE, !.param0 = "int"]) @@
    (11 :> Obj("var", "f")) @@
    (16 :> Obj("const", "b")) @@
    (32 :> Obj("const", "f")) @@
    (60 :> Obj("type", "pkg")) @@
    (62 :> Obj("var", "nil")) @@
    (64 :> Obj("type", "pkg")) @@
    (66 :> [Obj("var", "nil") EXCEPT !.embedded = TRUE]) @@
    (70 :> Obj("type", "pkg")) @@
    (72 :> [Obj("func", "nil") EXCEPT !.recv = TRUE]) @@
    (73 :> Obj("type", "pkg")) @@
    (76 :> [Obj("func", "nil") EXCEPT !.recv = TRUE]) @@
    (80 :> Obj("type", "pkg")) @@
    (83 :> [Obj("func", "nil") EXCEPT !.recv = TRUE]) @@
    (86 :> Obj("var", "pkg")) @@
    (101 :> Obj("nil", "nil")) @@
    (102 :> Obj("pkgname", "nil")) @@
    (103 :> Obj("pkgname", "nil")) @@
    (105 :> Obj("func", "pkg")) @@
    (107 :> Obj("nil", "nil")) @@
    (121 :> [Obj("func", "pkg") EXCEPT !.params = TRUE, !.param0 = "*testing.T"]) @@
    (122 :> Obj("var", "ft1")) @@
    (130 :> Obj("var", "pkg")) @@
    (140 :> Obj("type", "pkg")) @@
    (142 :> Obj("var", "mr")) @@
    (144 :> [Obj("func", "nil") EXCEPT !.recv = TRUE])

\* The position of the object a use refers to, where the package fixes it
\* (the uses of "scoped" are resolved by Init).  100 is the PkgName of the
\* import of testing, 9001 lies in package testing.
FixedUseRef ==
    (66 :> 60) @@ (75 :> 73) @@ (82 :> 80) @@ (87 :> 64) @@ (90 :> 86) @@
    (91 :> 66) @@ (92 :> 62) @@
    (108 :> 130) @@ (112 :> 107) @@ (123 :> 100) @@ (124 :> 9001) @@
    (143 :> 140)

\* Whether the object a use refers to is a *types.PkgName.
UseIsPkgName(u) == u = 123

\* The names the fixed identifiers have in the source.
SourceName ==
    (10 :> <<"F">>) @@
    (60 :> <<"t">>) @@ (62 :> <<"X">>) @@ (64 :> <<"S">>) @@ (66 :> <<"t">>) @@
    (70 :> <<"i">>) @@ (72 :> <<"m">>) @@ (73 :> <<"A">>) @@ (76 :> <<"m">>) @@
    (80 :> <<"B">>) @@ (83 :> <<"m">>) @@ (86 :> <<"v">>) @@
    (75 :> <<"A">>) @@ (82 :> <<"B">>) @@ (87 :> <<"S">>) @@ (90 :> <<"v">>) @@
    (91 :> <<"t">>) @@ (92 :> <<"X">>) @@
    (101 :> <<"p">>) @@ (102 :> <<".">>) @@ (103 :> <<"_">>) @@
    (105 :> <<"i","n","i","t">>) @@ (107 :> <<"y">>) @@
    (121 :> <<"T","e","s","t","A">>) @@ (122 :> <<"t">>) @@ (130 :> <<"w">>) @@
    (108 :> <<"w">>) @@ (112 :> <<"y">>) @@
    (123 :> <<"t","e","s","t","i","n","g">>) @@ (124 :> <<"T">>) @@
    (140 :> <<"L">>) @@ (142 :> <<"a">>) @@ (143 :> <<"L">>) @@ (144 :> <<"p","m">>)

\* The identifier nodes of the package's files.
IdentIds(p) == DefIds(p) \cup UseIds(p)

\* types.Scope.Contains
ScopeContains(s, pos) == ScopeExtent[s][1] <= pos /\ pos < ScopeExtent[s][2]

\* types.Scope.Innermost of the package scope: the innermost file or local
\* scope whose extent holds pos.
Innermost(p, pos) ==
    LET holding == {s \in ProgScopes(p) \ {"pkg"} : ScopeContains(s, pos)}
    IN  CHOOSE s \in holding :
            \A o \in holding : ScopeExtent[o][1] <= ScopeExtent[s][1]


(***************************************************************************)
(* internal/renamer/scope: the queries.  sd is the defs table of every     *)
(* scope (scope id -> map name -> position), su the uses table of every    *)
(* scope (scope id -> multimap name -> list of [Def, Use]).                *)
(***************************************************************************)
\* universePos is token.Pos(math.MaxInt); the largest integer TLC holds
\* stands for it (no arithmetic is done on it).
universePos == 2147483647

\* universeDefs: every name of types.Universe, at universePos.
universeDefs == reservedBuiltins

ScopeKind(s) ==
    IF s = "universe" THEN "universe"
    ELSE IF s = "pkg" THEN "pkg"
    ELSE IF s \in FileScopes THEN "file" ELSE "local"

\* token.Pos.IsValid
IsValid(pos) == pos # NoPos

\* pkg.files
Files(p) == <<FileOf(p)>>

\* scope.LookupDef, pkg.LookupDef, universe.LookupDef
LookupDef(sd, s, name) ==
    IF s = "universe"
    THEN IF name \in universeDefs THEN universePos ELSE NoPos
    ELSE MapGet(sd[s], name)

\* scope.LookupUse, pkg.LookupUse, universe.LookupUse
LookupUse(su, s, name) ==
    IF s = "universe" THEN mmLookup(su["pkg"], name) ELSE mmLookup(su[s], name)

\* Scope.Parent: "none" is the nil Scope.
Parent(s) == IF s = "universe" THEN "none" ELSE ScopeParent[s]

\* scope.contains, pkg.contains
Contains(p, s, pos) ==
    IF s = "pkg" THEN \E i \in 1..Len(Files(p)) : ScopeContains(Files(p)[i], pos)
    ELSE ScopeContains(s, pos)

\* local.LookupUseChildren without the search of the child scopes.
LookupUseHere(su, s, name, pos) ==
    LET uses == mmLookup(su[s], name) IN
    \E i \in 1..Len(uses) : ~IsValid(pos) \/ uses[i].Use > pos

RECURSIVE LookupUseChildren(_, _, _, _)
\* local.LookupUseChildren: whether a scope is found (the result is not nil).
LookupUseChildren(su, s, name, pos) ==
    LET uses == mmLookup(su[s], name) IN
    \/ \E i \in 1..Len(uses) : ~IsValid(pos) \/ uses[i].Use > pos
    \/ \E k \in 1..Len(ScopeChildren[s]) :
           LookupUseChildren(su, ScopeChildren[s][k], name, pos)

RECURSIVE lookupDefParentUp(_, _, _, _)
\* The loop of lookupDefParent over the parents, from scope s on.
lookupDefParentUp(sd, s, name, pos) ==
    IF s = "none" THEN "none"
    ELSE LET found == LookupDef(sd, s, name) IN
         IF ~IsValid(found) THEN lookupDefParentUp(sd, Parent(s), name, pos)
         ELSE IF ScopeKind(s) = "local"
              THEN IF found < pos THEN s ELSE "none"
              ELSE s

\* local.lookupDefParent: the scope found, "none" for nil.
lookupDefParent(sd, s, name, pos) ==
    LET found == LookupDef(sd, s, name) IN
    IF IsValid(found) /\ found < pos THEN s
    ELSE lookupDefParentUp(sd, Parent(s), name, pos)

\* local.CanDef without the search for uses of the name below the scope.
localCanDefNoUses(sd, su, s, name, pos) ==
    IF IsValid(LookupDef(sd, s, name)) THEN FALSE
    ELSE TRUE

\* local.CanDef
localCanDef(sd, su, s, name, pos) ==
    IF IsValid(LookupDef(sd, s, name)) THEN FALSE
    ELSE IF LookupUseChildren(su, s, name, pos) THEN FALSE
    ELSE TRUE

\* file.CanDef
fileCanDef(sd, s, name, pos) ==
    IF IsValid(LookupDef(sd, s, name)) THEN FALSE
    ELSE IF IsValid(LookupDef(sd, Parent(s), name)) THEN FALSE
    ELSE TRUE

\* pkg.CanDef
pkgCanDef(p, sd, name, pos) ==
    IF IsValid(LookupDef(sd, "pkg", name)) THEN FALSE
    ELSE IF \E i \in 1..Len(Files(p)) : IsValid(LookupDef(sd, Files(p)[i], name))
         THEN FALSE
         ELSE TRUE

\* Scope.CanDef
CanDef(p, sd, su, s, name, pos) ==
    CASE ScopeKind(s) = "universe" -> FALSE
      [] ScopeKind(s) = "pkg"      -> pkgCanDef(p, sd, name, pos)
      [] ScopeKind(s) = "file"     -> fileCanDef(sd, s, name, pos)
      [] ScopeKind(s) = "local"    -> localCanDef(sd, su, s, name, pos)

\* local.CanUse
localCanUse(sd, su, s, name, pos) ==
    IF Len(LookupUse(su, s, name)) > 0 THEN FALSE
    ELSE IF lookupDefParent(sd, s, name, pos) # "none" THEN FALSE
    ELSE TRUE

\* file.CanUse
fileCanUse(su, s, name, pos) ==
    IF Len(LookupUse(su, s, name)) > 0 THEN FALSE
    ELSE IF Len(LookupUse(su, Parent(s), name)) > 0 THEN FALSE
    ELSE TRUE

\* pkg.CanUse
pkgCanUse(p, su, name, pos) ==
    IF Len(LookupUse(su, "pkg", name)) > 0 THEN FALSE
    ELSE IF \E i \in 1..Len(Files(p)) :
                /\ Contains(p, Files(p)[i], pos)
                /\ Len(LookupUse(su, Parent(Files(p)[i]), name)) > 0
         THEN FALSE
         ELSE TRUE

\* Scope.CanUse
CanUse(p, sd, su, s, name, pos) ==
    CASE ScopeKind(s) = "universe" -> FALSE
      [] ScopeKind(s) = "pkg"      -> pkgCanUse(p, su, name, pos)
      [] ScopeKind(s) = "file"     -> fileCanUse(su, s, name, pos)
      [] ScopeKind(s) = "local"    -> localCanUse(sd, su, s, name, pos)

(***************************************************************************)
(* internal/renamer/scope: the cascading rename.  tab is the pair of       *)
(* tables [defs |-> sd, uses |-> su].                                      *)
(***************************************************************************)
RECURSIVE renameChildren(_, _, _, _, _, _)
RECURSIVE renameChildrenEach(_, _, _, _, _, _, _)

\* renameChildren
renameChildren(tab, s, name, def, newName, defRenamed) ==
    LET pos == MapGet(tab.defs[s], name)
        hit == ~defRenamed /\ pos # NoPos
        t1  == IF hit
               THEN [tab EXCEPT !.defs[s] = MapPut(MapDelete(@, name), newName, pos)]
               ELSE tab
        t2  == [t1 EXCEPT !.uses[s] = useMapRename(@, name, def, newName)]
    IN  renameChildrenEach(t2, ScopeChildren[s], 1, name, def, newName,
                           defRenamed \/ hit)

\* The loop of renameChildren over s.children, from the k-th child on.
renameChildrenEach(tab, children, k, name, def, newName, defRenamed) ==
    IF k > Len(children) THEN tab
    ELSE renameChildrenEach(
             renameChildren(tab, children[k], name, def, newName, defRenamed),
             children, k + 1, name, def, newName, defRenamed)

\* scope.RenameChildren (file and local scopes)
scopeRenameChildren(tab, s, name, def, newName) ==
    renameChildren(tab, s, name, def, newName, FALSE)

RECURSIVE pkgRenameFiles(_, _, _, _, _, _)
\* The loop of pkg.RenameChildren over s.files.
pkgRenameFiles(tab, files, k, name, def, newName) ==
    IF k > Len(files) THEN tab
    ELSE pkgRenameFiles(scopeRenameChildren(tab, files[k], name, def, newName),
                        files, k + 1, name, def, newName)

\* pkg.RenameChildren
pkgRenameChildren(p, tab, name, def, newName) ==
    LET t1 == [tab EXCEPT !.defs["pkg"] = MapPut(MapDelete(@, name), newName, def)]
        t2 == [t1 EXCEPT !.uses["pkg"] = useMapRename(@, name, def, newName)]
    IN  pkgRenameFiles(t2, Files(p), 1, name, def, newName)

\* Scope.RenameChildren
RenameChildren(p, tab, s, name, def, newName) ==
    IF ScopeKind(s) \in {"pkg", "universe"}
    THEN pkgRenameChildren(p, tab, name, def, newName)
    ELSE scopeRenameChildren(tab, s, name, def, newName)


(***************************************************************************)
(* internal/renamer/scope: PackageScope.  names gives every identifier its *)
(* name and ref every use the position of its object.  The slices the code *)
(* collects from Go maps have no fixed order; the lists of one name are    *)
(* kept here by ascending position of the identifier, which no query       *)
(* depends on.                                                             *)
(***************************************************************************)
RECURSIVE SetToSeq(_)
\* The positions of a set as a list, ascending.
SetToSeq(S) ==
    IF S = {} THEN <<>>
    ELSE LET m == CHOOSE x \in S : \A y \in S : x <= y
         IN  <<m>> \o SetToSeq(S \ {m})

\* findUse: whether some use refers to the object at position def.
findUse(p, ref, def) == \E u \in UseIds(p) : ref[u] = def

\* filterDefs: the definitions left in defs.
filterDefs(p, names, ref) ==
    {d \in DefIds(p) :
        /\ names[d] # <<".">> /\ names[d] # <<"_">>
        /\ IF DefObj[d].kind = "nil" THEN findUse(p, ref, d)
           ELSE DefObj[d].parent # "nil"}

\* filterDefs: the keys of nonObjects, the definitions without an object
\* that some use refers to.
DefNonObjects(p, names, ref) ==
    {d \in DefIds(p) :
        /\ names[d] # <<".">> /\ names[d] # <<"_">>
        /\ DefObj[d].kind = "nil" /\ findUse(p, ref, d)}

RECURSIVE PreOrder(_)
RECURSIVE PreOrderEach(_, _)
\* The order in which newScope comes to the scopes below and with s.
PreOrder(s) == <<s>> \o PreOrderEach(ScopeChildren[s], 1)
PreOrderEach(children, k) ==
    IF k > Len(children) THEN <<>>
    ELSE PreOrder(children[k]) \o PreOrderEach(children, k + 1)

\* The order in which PackageScope calls scopeDefUses.
BuildOrder(p) == <<"pkg">> \o PreOrder(FileOf(p))

\* The condition of scopeDefUses on a definition: obj != nil &&
\* obj.Parent() == src || src.Innermost(id.Pos()) == src.  Innermost of the
\* package scope is never the package scope.
defBelongs(p, d, s) ==
    \/ DefObj[d].kind # "nil" /\ DefObj[d].parent = s
    \/ s # "pkg" /\ Innermost(p, d) = s

\* Info.DefScopes: the first scope of the build order that takes d.
DefScopeOf(p, d) ==
    LET order == BuildOrder(p)
        takers == {k \in 1..Len(order) : defBelongs(p, d, order[k])}
    IN  IF takers = {} THEN "none"
        ELSE order[CHOOSE k \in takers : \A j \in takers : k <= j]

\* The file-scope loop of PackageScope: the imported package names used in
\* file scope s.
fileImports(p, names, ref, s) ==
    {u \in UseIds(p) : ScopeContains(s, ref[u]) /\ UseIsPkgName(u)}

\* scopeDefUses, resultDefs of scope s (with the imports of a file scope).
scopeDefsOf(p, names, ref, s) ==
    LET ds == {d \in filterDefs(p, names, ref) : DefScopeOf(p, d) = s}
        im == IF ScopeKind(s) = "file" THEN fileImports(p, names, ref, s) ELSE {}
        ns == {names[d] : d \in ds} \cup {names[u] : u \in im}
    IN  [n \in ns |->
            IF \E u \in im : names[u] = n
            THEN ref[CHOOSE u \in im : names[u] = n]
            ELSE CHOOSE d \in ds : names[d] = n]

\* scopeDefUses, resultUses of scope s.
scopeUsesOf(p, names, ref, s) ==
    LET us == {u \in UseIds(p) : s # "pkg" /\ Innermost(p, u) = s}
        ns == {names[u] : u \in us}
        entry(u) == [Def |-> ref[u], Use |-> u]
        list(n) == SetToSeq({u \in us : names[u] = n})
    IN  [n \in ns |-> [k \in 1..Len(list(n)) |-> entry(list(n)[k])]]

\* Info.Defs
infoDefsOf(p, names, ref) ==
    LET ds == {d \in filterDefs(p, names, ref) : DefScopeOf(p, d) # "none"}
        ns == {names[d] : d \in ds}
    IN  [n \in ns |-> SetToSeq({d \in ds : names[d] = n})]

\* Info.Uses
infoUsesOf(p, names, ref) ==
    LET us == UseIds(p)
        ns == {names[u] : u \in us}
        entry(u) == [Use |-> u, UseScope |-> Innermost(p, u), Def |-> ref[u]]
        list(n) == SetToSeq({u \in us : names[u] = n})
    IN  [n \in ns |-> [k \in 1..Len(list(n)) |-> entry(list(n)[k])]]

\* The tables of every scope after PackageScope; the scopes of other
\* packages stay empty.
PackageScopeDefs(p, names, ref) ==
    [s \in ScopeIds \ {"universe"} |->
        IF s \in ProgScopes(p) THEN scopeDefsOf(p, names, ref, s) ELSE <<>>]
PackageScopeUses(p, names, ref) ==
    [s \in ScopeIds \ {"universe"} |->
        IF s \in ProgScopes(p) THEN scopeUsesOf(p, names, ref, s) ELSE <<>>]


(***************************************************************************)
(* internal/renamer/selection.  A typ is a record; typeMap keys (typeKey)  *)
(* are pairs <<Pos, Ptr>>, and since every chainedType is reached through  *)
(* one key, a key also stands for the chainedType and for its typ.  T is   *)
(* the store of typ values by key.                                         *)
(***************************************************************************)
\* typeKey{Pos: pos, Ptr: ptr}
typeKey(pos, ptr) == <<pos, ptr>>

\* The nil typ.
NoType == <<NoPos, FALSE>>

\* newDefined
newDefined(bound) ==
    [kind |-> "defined", methods |-> {}, ptrMethods |-> {}, underlying |-> bound,
     fields |-> {}, embedded |-> <<>>]
\* newStruct
newStruct ==
    [kind |-> "st", methods |-> {}, ptrMethods |-> {}, underlying |-> NoType,
     fields |-> {}, embedded |-> <<>>]
\* newIface
newIface ==
    [kind |-> "iface", methods |-> {}, ptrMethods |-> {}, underlying |-> NoType,
     fields |-> {}, embedded |-> <<>>]

\* newPtr
newPtr(base) == [kind |-> "ptr", base |-> base]

\* The characters in code-point order, for strings.Compare.
CharOrder ==
    <<"-", ".", "/", "0","1","2","3","4","5","6","7","8","9",
      "A","B","C","D","E","F","G","H","I","J","K","L","M",
      "N","O","P","Q","R","S","T","U","V","W","X","Y","Z", "_",
      "a","b","c","d","e","f","g","h","i","j","k","l","m",
      "n","o","p","q","r","s","t","u","v","w","x","y","z">>
Ord(c) == CHOOSE i \in 1..Len(CharOrder) : CharOrder[i] = c

RECURSIVE Compare(_, _)
\* strings.Compare
Compare(a, b) ==
    IF a = <<>> /\ b = <<>> THEN 0
    ELSE IF a = <<>> THEN -1
    ELSE IF b = <<>> THEN 1
    ELSE IF Ord(Head(a)) < Ord(Head(b)) THEN -1
    ELSE IF Ord(Head(a)) > Ord(Head(b)) THEN 1
    ELSE Compare(Tail(a), Tail(b))

\* cmpTypeName
cmpTypeName(t, name) == Compare(t.name, name)

RECURSIVE BinarySearchLoop(_, _, _, _)
\* The loop of slices.BinarySearchFunc; i and j count from 0.
BinarySearchLoop(x, target, i, j) ==
    IF i < j
    THEN LET h == (i + j) \div 2 IN
         IF cmpTypeName(x[h + 1], target) < 0
         THEN BinarySearchLoop(x, target, h + 1, j)
         ELSE BinarySearchLoop(x, target, i, h)
    ELSE i

\* slices.BinarySearchFunc(x, target, cmpTypeName): [i, found], i from 0.
BinarySearchFunc(x, target) ==
    LET i == BinarySearchLoop(x, target, 0, Len(x))
    IN  [i |-> i, found |-> i < Len(x) /\ cmpTypeName(x[i + 1], target) = 0]

\* slices.Insert(x, i, v), i from 0.
Insert(x, i, v) == SubSeq(x, 1, i) \o <<v>> \o SubSeq(x, i + 1, Len(x))

\* st.AddEmbedded
stAddEmbedded(t, name, embed) ==
    [t EXCEPT !.embedded =
        Insert(@, BinarySearchFunc(@, name).i, [t |-> embed, name |-> name])]

\* selection.New on package p: the typeMap.  "sel" has the struct literals
\* at 61 (of t) and 65 (of S), the interface literal at 71 (of i), and the
\* receivers A and B; "recv" has the receiver *L, whose base L has no typ
\* for its underlying int.  "types" is the package of SpecSel:
\*     type A struct{ X int }         A @200, struct @201, X @202
\*     type B struct{ A; Y int }      B @210, struct @211, A @212, Y @213
\*     type C struct{ B; Z int }      C @220, struct @221, B @222, Z @223
\*     func (B) m() {}                m @230
\*     func (*A) pm() {}              pm @240
\*     type I interface{ im() }       I @250, interface @251, im @252
\*     type P struct{ A; U }          P @260, struct @261, A @262, U @263
\*     type U struct{}                U @270, struct @271
SelNew(p, names) ==
    IF p = "sel"
    THEN (typeKey(61, FALSE) :> [newStruct EXCEPT !.fields = {names[62]}]) @@
         (typeKey(60, FALSE) :> newDefined(typeKey(61, FALSE))) @@
         (typeKey(65, FALSE) :> stAddEmbedded(newStruct, names[60], typeKey(60, FALSE))) @@
         (typeKey(71, FALSE) :> [newIface EXCEPT !.methods = {names[72]}]) @@
         (typeKey(73, FALSE) :> [newDefined(NoType) EXCEPT !.methods = {names[76]}]) @@
         (typeKey(80, FALSE) :> [newDefined(NoType) EXCEPT !.methods = {names[83]}])
    ELSE IF p = "types"
    THEN (typeKey(201, FALSE) :> [newStruct EXCEPT !.fields = {names[202]}]) @@
         (typeKey(200, FALSE) :> [newDefined(typeKey(201, FALSE)) EXCEPT
                                     !.ptrMethods = {names[240]}]) @@
         (typeKey(200, TRUE) :> newPtr(typeKey(200, FALSE))) @@
         (typeKey(211, FALSE) :> stAddEmbedded([newStruct EXCEPT !.fields = {names[213]}],
                                               names[200], typeKey(200, FALSE))) @@
         (typeKey(210, FALSE) :> [newDefined(typeKey(211, FALSE)) EXCEPT
                                     !.methods = {names[230]}]) @@
         (typeKey(221, FALSE) :> stAddEmbedded([newStruct EXCEPT !.fields = {names[223]}],
                                               names[210], typeKey(210, FALSE))) @@
         (typeKey(220, FALSE) :> newDefined(typeKey(221, FALSE))) @@
         (typeKey(251, FALSE) :> [newIface EXCEPT !.methods = {names[252]}]) @@
         (typeKey(250, FALSE) :> newDefined(typeKey(251, FALSE))) @@
         (typeKey(261, FALSE) :> stAddEmbedded(
                                    stAddEmbedded(newStruct, names[200], typeKey(200, FALSE)),
                                    names[270], typeKey(270, FALSE))) @@
         (typeKey(260, FALSE) :> newDefined(typeKey(261, FALSE))) @@
         (typeKey(271, FALSE) :> newStruct) @@
         (typeKey(270, FALSE) :> newDefined(typeKey(271, FALSE)))
    ELSE IF p = "recv"
    THEN (typeKey(140, FALSE) :> [newDefined(NoType) EXCEPT !.ptrMethods = {names[144]}]) @@
         (typeKey(140, TRUE) :> newPtr(typeKey(140, FALSE)))
    ELSE <<>>

\* chainedType.embeders as addType leaves them.
Embeders(p, k) ==
    IF p = "sel" /\ k = typeKey(60, FALSE) THEN <<typeKey(65, FALSE)>>
    ELSE IF p = "types" /\ k = typeKey(200, FALSE)
    THEN <<typeKey(211, FALSE), typeKey(261, FALSE)>>
    ELSE IF p = "types" /\ k = typeKey(210, FALSE) THEN <<typeKey(221, FALSE)>>
    ELSE IF p = "types" /\ k = typeKey(270, FALSE) THEN <<typeKey(261, FALSE)>>
    ELSE <<>>

\* fieldMethodMap as New leaves it: position of a field or method -> key of
\* the type it belongs to.
fmm(p) ==
    IF p = "sel"
    THEN (62 :> typeKey(61, FALSE)) @@ (66 :> typeKey(65, FALSE)) @@
         (72 :> typeKey(71, FALSE)) @@ (76 :> typeKey(73, FALSE)) @@
         (83 :> typeKey(80, FALSE))
    ELSE IF p = "types"
    THEN (202 :> typeKey(201, FALSE)) @@ (212 :> typeKey(211, FALSE)) @@
         (213 :> typeKey(211, FALSE)) @@ (222 :> typeKey(221, FALSE)) @@
         (223 :> typeKey(221, FALSE)) @@ (230 :> typeKey(210, FALSE)) @@
         (240 :> typeKey(200, TRUE)) @@ (252 :> typeKey(251, FALSE)) @@
         (262 :> typeKey(261, FALSE)) @@ (263 :> typeKey(261, FALSE))
    ELSE IF p = "recv" THEN (144 :> typeKey(140, TRUE))
    ELSE <<>>

\* The kind of the typ behind key k, "nil" for the nil typ.
KindOf(T, k) == IF k \in DOMAIN T THEN T[k].kind ELSE "nil"

\* The result of a query that panics (a nil underlying typ, "bad receiver").
Panicked == -2


RECURSIVE typQuery(_, _, _, _, _)
RECURSIVE stPromoted(_, _, _, _, _)
RECURSIVE promotedDepths(_, _, _, _, _, _, _)
RECURSIVE promotedStep(_, _, _, _, _, _, _)
RECURSIVE definedPtrMethod(_, _, _, _)

\* What a query returns: the depth, and the set visited (shared by all the
\* calls of one query) as the call leaves it.
Result(depth, vis) == [depth |-> depth, visited |-> vis]

\* defined.ptrMethod: t.ptrMethods.Contains(name)
hasPtrMethod(t, name) == name \in t.ptrMethods

\* defined.ptrMethod after t.method(name, visited) answered r.
definedPtrMethod(T, k, name, r) ==
    IF r.depth > -1 \/ r.depth = Panicked THEN r
    ELSE IF hasPtrMethod(T[k], name) THEN Result(0, r.visited)
    ELSE IF T[k].underlying = NoType THEN Result(Panicked, r.visited)
    ELSE typQuery(T, T[k].underlying, "ptrMethod", name, r.visited)

\* The method q of the interface typ ("field", "ptrField", "method" or
\* "ptrMethod"), dispatched on the kind of the receiver T[k].
typQuery(T, k, q, name, vis) ==
    CASE q = "field" /\ T[k].kind = "defined" ->
            IF T[k].underlying = NoType THEN Result(-1, vis)
            ELSE typQuery(T, T[k].underlying, "field", name, vis)
      [] q = "field" /\ T[k].kind = "st" ->
            IF name \in T[k].fields THEN Result(0, vis)
            ELSE IF BinarySearchFunc(T[k].embedded, name).found THEN Result(0, vis)
            ELSE stPromoted(T, k, "field", name, vis)
      [] q = "field" /\ T[k].kind = "iface" -> Result(-1, vis)
      [] q = "field" /\ T[k].kind = "ptr" ->
            typQuery(T, T[k].base, "ptrField", name, vis)
      [] q = "ptrField" /\ T[k].kind = "defined" ->
            IF T[k].underlying = NoType THEN Result(-1, vis)
            ELSE typQuery(T, T[k].underlying, "ptrField", name, vis)
      [] q = "ptrField" /\ T[k].kind = "st" ->
            typQuery(T, k, "field", name, vis)
      [] q = "ptrField" /\ T[k].kind = "iface" -> Result(-1, vis)
      [] q = "ptrField" /\ T[k].kind = "ptr" -> Result(-1, vis)
      [] q = "method" /\ T[k].kind = "defined" ->
            IF KindOf(T, T[k].underlying) = "iface"
            THEN typQuery(T, T[k].underlying, "method", name, vis)
            ELSE IF name \in T[k].methods THEN Result(0, vis)
            ELSE IF KindOf(T, T[k].underlying) = "st"
            THEN typQuery(T, T[k].underlying, "method", name, vis)
            ELSE Result(-1, vis)
      [] q = "method" /\ T[k].kind = "st" ->
            stPromoted(T, k, "method", name, vis)
      [] q = "method" /\ T[k].kind = "iface" ->
            IF name \in T[k].methods THEN Result(0, vis)
            ELSE IF \E i \in 1..Len(T[k].embedded) :
                        typQuery(T, T[k].embedded[i], "method", name, vis).depth > -1
            THEN Result(0, vis)
            ELSE Result(-1, vis)
      [] q = "method" /\ T[k].kind = "ptr" ->
            typQuery(T, T[k].base, "ptrMethod", name, vis)
      [] q = "ptrMethod" /\ T[k].kind = "defined" ->
            IF KindOf(T, T[k].underlying) = "ptr" THEN Result(Panicked, vis)
            ELSE definedPtrMethod(T, k, name, typQuery(T, k, "method", name, vis))
      [] q = "ptrMethod" /\ T[k].kind = "st" ->
            stPromoted(T, k, "ptrMethod", name, vis)
      [] q = "ptrMethod" /\ T[k].kind = "iface" -> Result(-1, vis)
      [] q = "ptrMethod" /\ T[k].kind = "ptr" -> Result(-1, vis)

\* The query st.promoted puts to an embedded member of kind kind: f, and for
\* st.ptrMethod the method query on the pointer to a defined type, the
\* method query otherwise.
promotedQuery(f, kind) ==
    IF f = "ptrMethod" /\ kind # "defined" THEN "method" ELSE f

\* The body of the iterator of st.promoted after the i-th member answered r:
\* a depth > -1 is yielded, and the next member is asked.
promotedStep(T, k, f, name, i, depths, r) ==
    IF r.depth = Panicked
    THEN [depths |-> depths, visited |-> r.visited, panic |-> TRUE]
    ELSE promotedDepths(T, k, f, name, i + 1, r.visited,
                        IF r.depth > -1 THEN Append(depths, r.depth)
                        ELSE depths)

\* The iterator of st.promoted: f on the embedded members from the i-th on,
\* one after the other on the shared set visited, keeping the depths > -1.
\* f is the query on the embedded type: field, method, or (st.ptrMethod)
\* the method query on the pointer to it.
promotedDepths(T, k, f, name, i, vis, depths) ==
    IF i > Len(T[k].embedded)
    THEN [depths |-> depths, visited |-> vis, panic |-> FALSE]
    ELSE promotedStep(T, k, f, name, i, depths,
                      typQuery(T, T[k].embedded[i].t,
                               promotedQuery(f, T[T[k].embedded[i].t].kind),
                               name, vis))

\* The guard of st.promoted: a struct already in visited gives -1.
promotedReentered(k, vis) == k \in vis

\* A st.promoted that leaves the struct in visited.
promotedKeep(k, vis) == vis

\* What the deferred visited.Delete(t) of st.promoted leaves.
promotedLeave(k, vis) == vis \ {k}

\* The end of st.promoted: the least of the depths ds plus one, -1 when
\* there is none or when two members give the least.
promotedLeast(ds) ==
    IF Len(ds) = 0 THEN -1
    ELSE LET least == CHOOSE i \in 1..Len(ds) :
                          \A j \in 1..Len(ds) : ds[i] <= ds[j]
         IN  IF \E j \in 1..Len(ds) : j # least /\ ds[j] = ds[least]
             THEN -1
             ELSE ds[least] + 1

\* st.promoted once the members have been asked (r is what promotedDepths
\* gives).
promotedEnd(k, r) ==
    Result(IF r.panic THEN Panicked ELSE promotedLeast(r.depths),
           promotedLeave(k, r.visited))

\* st.promoted
stPromoted(T, k, f, name, vis) ==
    IF promotedReentered(k, vis) THEN Result(-1, vis)
    ELSE promotedEnd(k, promotedDepths(T, k, f, name, 1, vis \cup {k}, <<>>))

\* defined.field, st.field, iface.field, ptr.field
typField(T, k, name, vis) == typQuery(T, k, "field", name, vis)
\* defined.ptrField, st.ptrField, iface.ptrField, ptr.ptrField
typPtrField(T, k, name, vis) == typQuery(T, k, "ptrField", name, vis)
\* defined.method, st.method, iface.method, ptr.method
typMethod(T, k, name, vis) == typQuery(T, k, "method", name, vis)
\* defined.ptrMethod, st.ptrMethod, iface.ptrMethod, ptr.ptrMethod
typPtrMethod(T, k, name, vis) == typQuery(T, k, "ptrMethod", name, vis)

\* field
field(T, k, name) == typField(T, k, name, {}).depth
\* method
method(T, k, name) == typMethod(T, k, name, {}).depth

\* The depth HasName returns: the field's when there is one, the method's
\* otherwise.
firstFound(f, m) == IF f > -1 THEN f ELSE m

\* HasName
HasName(T, k, name) ==
    firstFound(field(T, k, name), method(T, k, name))

\* canRenameSelTo
canRenameSelTo(T, p, k, name) ==
    IF HasName(T, k, name) > -1 THEN FALSE
    ELSE \A i \in 1..Len(Embeders(p, k)) : ~(HasName(T, Embeders(p, k)[i], name) > -1)

\* The closure canRename of CanRenameEmbedded.
canRenameEmbeders(T, p, k, newName) ==
    \A i \in 1..Len(Embeders(p, k)) :
        \/ T[Embeders(p, k)[i]].kind = "iface"
        \/ canRenameSelTo(T, p, Embeders(p, k)[i], newName)

\* Selection.CanRenameEmbedded
CanRenameEmbedded(T, p, def, newName) ==
    /\ typeKey(def, FALSE) \in DOMAIN T => canRenameEmbeders(T, p, typeKey(def, FALSE), newName)
    /\ typeKey(def, TRUE) \in DOMAIN T => canRenameEmbeders(T, p, typeKey(def, TRUE), newName)

\* slices.IndexFunc(embedded, e.t == t), from 1; 0 when there is none.
IndexOfEmbedded(embedded, t) ==
    IF \E i \in 1..Len(embedded) : embedded[i].t = t
    THEN CHOOSE i \in 1..Len(embedded) :
             embedded[i].t = t /\ \A j \in 1..(i - 1) : embedded[j].t # t
    ELSE 0

RECURSIVE renameEmbeders(_, _, _, _, _)
\* The closure rename of RenameEmbedded, from the n-th embeder of k on.
renameEmbeders(T, p, k, n, newName) ==
    IF n > Len(Embeders(p, k)) THEN T
    ELSE LET e == Embeders(p, k)[n] IN
         IF T[e].kind = "iface" THEN renameEmbeders(T, p, k, n + 1, newName)
         ELSE LET i == IndexOfEmbedded(T[e].embedded, k)
              IN  renameEmbeders([T EXCEPT ![e].embedded[i].name = newName],
                                 p, k, n + 1, newName)

\* Selection.RenameEmbedded
RenameEmbedded(T, p, def, newName) ==
    LET T1 == IF typeKey(def, FALSE) \in DOMAIN T
              THEN renameEmbeders(T, p, typeKey(def, FALSE), 1, newName) ELSE T
    IN  IF typeKey(def, TRUE) \in DOMAIN T1
        THEN renameEmbeders(T1, p, typeKey(def, TRUE), 1, newName) ELSE T1

\* renameStructField: [renamed, T]
renameStructField(T, k, name, newName) ==
    IF name \notin T[k].fields THEN [renamed |-> FALSE, T |-> T]
    ELSE [renamed |-> TRUE,
          T |-> [T EXCEPT ![k].fields = (@ \ {name}) \cup {newName}]]

\* renameInterfaceMethod: [renamed, T]
renameInterfaceMethod(T, k, name, newName) ==
    IF name \notin T[k].methods THEN [renamed |-> FALSE, T |-> T]
    ELSE [renamed |-> TRUE,
          T |-> [T EXCEPT ![k].methods = (@ \ {name}) \cup {newName}]]

RECURSIVE renameDefinedSel(_, _, _, _)
RECURSIVE renamePtrSel(_, _, _, _)

\* renameDefinedSel: [renamed, T]
renameDefinedSel(T, k, name, newName) ==
    IF name \in T[k].methods
    THEN [renamed |-> TRUE,
          T |-> [T EXCEPT ![k].methods = (@ \ {name}) \cup {newName}]]
    ELSE CASE KindOf(T, T[k].underlying) = "st" ->
                 renameStructField(T, T[k].underlying, name, newName)
           [] KindOf(T, T[k].underlying) = "ptr" ->
                 renamePtrSel(T, T[k].underlying, name, newName)
           [] KindOf(T, T[k].underlying) = "iface" ->
                 renameInterfaceMethod(T, T[k].underlying, name, newName)
           [] OTHER -> [renamed |-> FALSE, T |-> T]

\* renamePtrSel: [renamed, T].  A pointer-receiver method is deleted from
\* ptrMethods and added again under the same name (ptrMethods.Add(name)).
renamePtrSel(T, k, name, newName) ==
    LET b == T[k].base IN
    CASE KindOf(T, b) = "defined" ->
            IF name \in T[b].ptrMethods
            THEN [renamed |-> TRUE,
                  T |-> [T EXCEPT ![b].ptrMethods = (@ \ {name}) \cup {name}]]
            ELSE renameDefinedSel(T, b, name, newName)
      [] KindOf(T, b) = "st" -> renameStructField(T, b, name, newName)
      [] OTHER -> [renamed |-> FALSE, T |-> T]

\* canRenameSelTo panics: a HasName it gets to calls ptrMethod on the nil
\* underlying typ of a defined type.
canRenameSelToPanics(T, p, k, name) ==
    \/ HasName(T, k, name) = Panicked
    \/ \E i \in 1..Len(Embeders(p, k)) :
          /\ HasName(T, Embeders(p, k)[i], name) = Panicked
          /\ HasName(T, k, name) = -1
          /\ \A j \in 1..(i - 1) : HasName(T, Embeders(p, k)[j], name) = -1

\* Selection.Rename: [ok, panic, T]; panic is the panic of canRenameSelTo
\* or the "rename failed" panic.
selRename(T, p, name, pos, newName) ==
    LET k == fmm(p)[pos] IN
    IF canRenameSelToPanics(T, p, k, newName)
    THEN [ok |-> FALSE, panic |-> TRUE, T |-> T]
    ELSE IF ~canRenameSelTo(T, p, k, newName)
    THEN [ok |-> FALSE, panic |-> FALSE, T |-> T]
    ELSE LET r == CASE T[k].kind = "defined" -> renameDefinedSel(T, k, name, newName)
                    [] T[k].kind = "st" -> renameStructField(T, k, name, newName)
                    [] T[k].kind = "ptr" -> renamePtrSel(T, k, name, newName)
                    [] T[k].kind = "iface" -> renameInterfaceMethod(T, k, name, newName)
         IN  [ok |-> r.renamed, panic |-> ~r.renamed, T |-> r.T]


(***************************************************************************)
(* flags.keepFlag.  A flag value and a package path are sequences of       *)
(* characters; f is the record [names, pkgs] of a keepFlag, pkgs a map     *)
(* from package key to set of names.                                       *)
(***************************************************************************)
\* [\pL]
LetterChars == UpperChars \cup LowerChars
\* \w
WordChars == UpperChars \cup LowerChars \cup DigitChars \cup {"_"}

\* [\pL][\pL\p{Nd}]*
MatchId(e) == /\ Len(e) >= 1
              /\ e[1] \in LetterChars
              /\ \A i \in 2..Len(e) : e[i] \in LetterChars \cup DigitChars
\* \w[\w\.\-_]+ (a path element before a slash)
MatchSeg(e) == /\ Len(e) >= 2
               /\ e[1] \in WordChars
               /\ \A i \in 2..Len(e) : e[i] \in WordChars \cup {".", "-"}

\* strings.LastIndex(value, c), from 1; 0 when c does not occur.
LastIndex(value, c) ==
    IF \E i \in 1..Len(value) : value[i] = c
    THEN CHOOSE i \in 1..Len(value) :
             value[i] = c /\ \A j \in (i + 1)..Len(value) : value[j] # c
    ELSE 0

\* strings.Index(value, c), from 1; 0 when c does not occur.
Index(value, c) ==
    IF \E i \in 1..Len(value) : value[i] = c
    THEN CHOOSE i \in 1..Len(value) :
             value[i] = c /\ \A j \in 1..(i - 1) : value[j] # c
    ELSE 0

RECURSIVE Split(_, _)
\* strings.SplitSeq(value, sep) for a one-character sep, as a list.
Split(value, sep) ==
    LET i == Index(value, sep) IN
    IF i = 0 THEN <<value>>
    ELSE <<SubSeq(value, 1, i - 1)>> \o Split(SubSeq(value, i + 1, Len(value)), sep)

RECURSIVE TrimSpace(_)
\* strings.TrimSpace
TrimSpace(value) ==
    IF value # <<>> /\ Head(value) = " " THEN TrimSpace(Tail(value))
    ELSE IF value # <<>> /\ value[Len(value)] = " "
         THEN TrimSpace(SubSeq(value, 1, Len(value) - 1))
         ELSE value

\* reKeep.FindStringSubmatch(value) != nil, with the package part before
\* the last dot: every path element before a slash matches MatchSeg and
\* the last one MatchId.
reKeepPkg(part) ==
    LET segs == Split(part, "/") IN
    /\ \A i \in 1..(Len(segs) - 1) : MatchSeg(segs[i])
    /\ MatchId(segs[Len(segs)])

\* parseKeepFlag: [pkg, name], both empty when reKeep does not match.
parseKeepFlag(value) ==
    LET dot  == LastIndex(value, ".")
        pkg  == SubSeq(value, 1, dot - 1)
        name == SubSeq(value, dot + 1, Len(value))
    IN  IF dot = 0
        THEN IF MatchId(value) THEN [pkg |-> <<>>, name |-> value]
             ELSE [pkg |-> <<>>, name |-> <<>>]
        ELSE IF reKeepPkg(pkg) /\ MatchId(name) THEN [pkg |-> pkg, name |-> name]
             ELSE [pkg |-> <<>>, name |-> <<>>]

\* keepFlag.setFlag: [err, f]
setFlag(f, value) ==
    LET m == parseKeepFlag(TrimSpace(value)) IN
    IF m.name = <<>> THEN [err |-> TRUE, f |-> f]
    ELSE IF m.pkg = <<>>
    THEN [err |-> FALSE, f |-> [f EXCEPT !.names = @ \cup {m.name}]]
    ELSE [err |-> FALSE,
          f |-> [f EXCEPT !.pkgs =
                    MapPut(@, m.pkg,
                           (IF m.pkg \in DOMAIN @ THEN @[m.pkg] ELSE {}) \cup {m.name})]]

RECURSIVE SetLoop(_, _, _)
\* The loop of keepFlag.Set over the flags, from the i-th on: [err, f].
SetLoop(f, flagList, i) ==
    IF i > Len(flagList) THEN [err |-> FALSE, f |-> f]
    ELSE LET r == setFlag(f, flagList[i]) IN
         IF r.err THEN r ELSE SetLoop(r.f, flagList, i + 1)

\* keepFlag.Set: [err, f]
keepSet(f, value) == SetLoop(f, Split(value, ","), 1)

RECURSIVE TrimSlashes(_)
\* The loop of path.Base that strips trailing slashes.
TrimSlashes(pth) ==
    IF pth # <<>> /\ pth[Len(pth)] = "/"
    THEN TrimSlashes(SubSeq(pth, 1, Len(pth) - 1)) ELSE pth

\* path.Base
pathBase(pth) ==
    IF pth = <<>> THEN <<".">>
    ELSE LET t == TrimSlashes(pth)
             b == SubSeq(t, LastIndex(t, "/") + 1, Len(t))
         IN  IF b = <<>> THEN <<"/">> ELSE b

\* keepFlag.Contains without the lookup of path.Base(pkg).
keepContainsNoBase(f, pkg, name) ==
    IF name \in f.names THEN TRUE
    ELSE IF pkg \in DOMAIN f.pkgs /\ name \in f.pkgs[pkg] THEN TRUE
    ELSE FALSE

\* keepFlag.Contains
keepContains(f, pkg, name) ==
    IF name \in f.names THEN TRUE
    ELSE IF pkg \in DOMAIN f.pkgs /\ name \in f.pkgs[pkg] THEN TRUE
    ELSE IF pathBase(pkg) \in DOMAIN f.pkgs THEN name \in f.pkgs[pathBase(pkg)]
    ELSE FALSE

(***************************************************************************)
(* internal/renamer: the classifications.                                  *)
(***************************************************************************)
\* strings.HasSuffix
HasSuffix(str, suffix) ==
    /\ Len(str) >= Len(suffix)
    /\ SubSeq(str, Len(str) - Len(suffix) + 1, Len(str)) = suffix

\* reTestFuncName: ^Test[^\p{Ll}]
MatchTestFuncName(name) ==
    /\ Len(name) >= 5
    /\ SubSeq(name, 1, 4) = <<"T","e","s","t">>
    /\ name[5] \notin LowerChars

\* The file scope whose extent holds pos.
FileAt(pos) == CHOOSE f \in FileScopes : ScopeContains(f, pos)

\* isTestFunc, for the object of the defining identifier at d with the
\* object name name.
isTestFunc(d, name) ==
    IF ~HasSuffix(FileName(FileAt(d)), <<"_","t","e","s","t",".","g","o">>) THEN FALSE
    ELSE IF DefObj[d].kind # "func" THEN FALSE
    ELSE IF ~MatchTestFuncName(name) THEN FALSE
    ELSE IF DefObj[d].recv THEN FALSE
    ELSE IF ~DefObj[d].params \/ DefObj[d].typeParams \/ DefObj[d].variadic THEN FALSE
    ELSE DefObj[d].param0 = "*testing.T"

\* isInitFunc with the receiver test inverted.
isInitFuncRecv(d, name) ==
    IF DefObj[d].kind # "func" THEN FALSE
    ELSE IF name # <<"i","n","i","t">> THEN FALSE
    ELSE IF ~DefObj[d].recv THEN FALSE
    ELSE ~DefObj[d].params

\* isInitFunc, likewise.
isInitFunc(d, name) ==
    IF DefObj[d].kind # "func" THEN FALSE
    ELSE IF name # <<"i","n","i","t">> THEN FALSE
    ELSE IF DefObj[d].recv THEN FALSE
    ELSE ~DefObj[d].params


(***************************************************************************)
(* internal/renamer: the driver Rename and the two rename operations.      *)
(***************************************************************************)
\* The seeds of the generator handed to Rename.
Seeds == << <<"a">>, <<"b">>, <<"A">> >>
idGen == NewGenerator(Seeds)

\* Whether the object of the defining identifier d is a field or a method
\* (def.Parent() == nil of a non-nil def).
isFieldMethod(d) == DefObj[d].kind # "nil" /\ DefObj[d].parent = "nil"

\* defRenamer.isSymbolic: DefNonObjects holds a *types.Var for d.
isSymbolic(d) == d \in DefNonObjects(prog, objName, useRef)

\* The local variable exported of Rename's loop body, for definition d.
exportedOf(d) ==
    IF DefObj[d].kind = "nil" THEN FALSE
    ELSE IF DefObj[d].parent = "nil" THEN IsExported(identName[d])
    ELSE DefObj[d].parent = "pkg" /\ IsExported(identName[d])

\* The continue statements without the one for exported identifiers.
skipsNoExportedTest(d) ==
    \/ identName[d] = <<".">> \/ identName[d] = <<"_">>
    \/ keepContains([names |-> keepNames, pkgs |-> keepPkgs], pkgPath, identName[d])
    \/ DefObj[d].kind = "nil" /\ ~isSymbolic(d)
    \/ DefObj[d].kind # "nil" /\ isInitFunc(d, objName[d])
    \/ isFieldMethod(d) /\ DefObj[d].embedded

\* The continue statements of Rename's loop body, for definition d.
skips(d) ==
    \/ identName[d] = <<".">> \/ identName[d] = <<"_">>
    \/ keepContains([names |-> keepNames, pkgs |-> keepPkgs], pkgPath, identName[d])
    \/ DefObj[d].kind = "nil" /\ ~isSymbolic(d)
    \/ DefObj[d].kind # "nil" /\ isInitFunc(d, objName[d])
    \/ isFieldMethod(d) /\ DefObj[d].embedded
    \/ exportedOf(d) /\ ~renameExported

\* defRenamer.canRenameScoped
canRenameScoped(name, defPos, defParent, newName) ==
    IF ~CanDef(prog, scopeDefs, scopeUses, defParent, newName, defPos) THEN FALSE
    ELSE LET uses == mmLookup(infoUses, name) IN
         \A i \in 1..Len(uses) :
            \/ uses[i].Def # defPos
            \/ CanUse(prog, scopeDefs, scopeUses, uses[i].UseScope, newName, defPos)

\* The state a rename operation leaves: [ok, panic, defs, uses, infoDefs,
\* infoUses, sel].
Outcome(ok, panic, tab, idefs, iuses, T) ==
    [ok |-> ok, panic |-> panic, defs |-> tab.defs, uses |-> tab.uses,
     infoDefs |-> idefs, infoUses |-> iuses, sel |-> T]

\* A RenameScoped that renames the embedded fields before it asks the
\* scopes.
RenameScopedEager(id, newName) ==
    LET name  == identName[id]
        tab   == [defs |-> scopeDefs, uses |-> scopeUses]
        scope == DefScopeOf(prog, id)
        fail  == Outcome(FALSE, FALSE, tab, infoDefs, infoUses, selTypes)
    IN  IF ~CanRenameEmbedded(selTypes, prog, id, newName) THEN fail
        ELSE IF ~canRenameScoped(name, id, scope, newName)
        THEN Outcome(FALSE, FALSE,
                     RenameChildren(prog, tab, scope, name, id, newName),
                     infoDefs, infoUses,
                     RenameEmbedded(selTypes, prog, id, newName))
        ELSE Outcome(TRUE, FALSE,
                     RenameChildren(prog, tab, scope, name, id, newName),
                     defMapRename(infoDefs, name, id, newName),
                     useMapRename(infoUses, name, id, newName),
                     RenameEmbedded(selTypes, prog, id, newName))

\* defRenamer.RenameScoped
RenameScoped(id, newName) ==
    LET name  == identName[id]
        tab   == [defs |-> scopeDefs, uses |-> scopeUses]
        scope == DefScopeOf(prog, id)
        fail  == Outcome(FALSE, FALSE, tab, infoDefs, infoUses, selTypes)
    IN  IF ~CanRenameEmbedded(selTypes, prog, id, newName) THEN fail
        ELSE IF ~canRenameScoped(name, id, scope, newName) THEN fail
        ELSE Outcome(TRUE, FALSE,
                     RenameChildren(prog, tab, scope, name, id, newName),
                     defMapRename(infoDefs, name, id, newName),
                     useMapRename(infoUses, name, id, newName),
                     RenameEmbedded(selTypes, prog, id, newName))

\* defRenamer.RenameFieldMethod
RenameFieldMethod(id, newName) ==
    LET r   == selRename(selTypes, prog, identName[id], id, newName)
        tab == [defs |-> scopeDefs, uses |-> scopeUses]
    IN  Outcome(r.ok, r.panic, tab, infoDefs, infoUses, r.T)

\* The local variable rename of Rename's loop body, called.
rename(id, newName) ==
    IF isFieldMethod(id) THEN RenameFieldMethod(id, newName)
    ELSE RenameScoped(id, newName)

\* The call next() of the candidate loop: [id, stack].
next ==
    IF curExported THEN NextExported(idGen, stack) ELSE NextUnexported(idGen, stack)

\* An iteration of the range over TypesInfo.Defs that ends in a continue.
Skip(d) ==
    /\ pc = "loop"
    /\ d \in DefIds(prog) \ visited
    /\ skips(d)
    /\ visited' = visited \cup {d}
    /\ UNCHANGED <<libVars, prog, pkgPath, renameExported, keepNames, keepPkgs, identName,
                   objName, useRef, scopeDefs, scopeUses, infoDefs, infoUses,
                   selTypes, renamed, xRenamed, cur, curExported, stack, lastDraw,
                   args, argi, pc>>

\* An iteration that reaches the candidate loop: the generator closure is
\* made.
Begin(d) ==
    /\ pc = "loop"
    /\ d \in DefIds(prog) \ visited
    /\ ~skips(d)
    /\ cur' = d
    /\ curExported' = exportedOf(d)
    /\ stack' = <<0>>
    /\ pc' = "draw"
    /\ UNCHANGED <<libVars, prog, pkgPath, renameExported, keepNames, keepPkgs, identName,
                   objName, useRef, scopeDefs, scopeUses, infoDefs, infoUses,
                   selTypes, renamed, xRenamed, visited, lastDraw, args, argi>>

\* The end of an iteration: the locals of the loop body are gone.
EndIteration ==
    /\ visited' = visited \cup {cur}
    /\ cur' = NoPos
    /\ curExported' = FALSE
    /\ stack' = <<0>>
    /\ lastDraw' = <<>>
    /\ pc' = "loop"

\* The scopes, the maps of TypesInfo and the selector model as the call r
\* of rename left them.
Applied(r) ==
    /\ scopeDefs' = r.defs
    /\ scopeUses' = r.uses
    /\ infoDefs' = r.infoDefs
    /\ infoUses' = r.infoUses
    /\ selTypes' = r.sel

\* The call r of rename returned true.
Accepted(r) == r.ok /\ Applied(r)

\* The call r of rename returned false, or panicked.
Rejected(r) ==
    /\ ~r.ok
    /\ Applied(r)
    /\ pc' = IF r.panic THEN "panic" ELSE "draw"

\* The candidate is the identifier's own name: break.
DrawSame ==
    /\ pc = "draw"
    /\ identName[cur] = next.id
    /\ EndIteration
    /\ UNCHANGED <<libVars, prog, pkgPath, renameExported, keepNames, keepPkgs, identName,
                   objName, useRef, scopeDefs, scopeUses, infoDefs, infoUses,
                   selTypes, renamed, xRenamed, args, argi>>

\* rename(id, newName) returns true: the commit and the break.
DrawCommit ==
    /\ pc = "draw"
    /\ identName[cur] # next.id
    /\ Accepted(rename(cur, next.id))
    /\ identName' = [identName EXCEPT ![cur] = next.id]
    /\ renamed' = MapPut(renamed, cur, next.id)
    /\ xRenamed' = IF curExported THEN MapPut(xRenamed, cur, next.id) ELSE xRenamed
    /\ EndIteration
    /\ UNCHANGED <<libVars, prog, pkgPath, renameExported, keepNames, keepPkgs, objName,
                   useRef, args, argi>>

\* rename(id, newName) returns false: the next candidate is drawn (the
\* panic of Selection.Rename ends the program).
DrawReject ==
    /\ pc = "draw"
    /\ identName[cur] # next.id
    /\ Rejected(rename(cur, next.id))
    /\ stack' = next.stack
    /\ lastDraw' = next.id
    /\ UNCHANGED <<libVars, prog, pkgPath, renameExported, keepNames, keepPkgs, identName,
                   objName, useRef, renamed, xRenamed, visited, cur, curExported,
                   args, argi>>

\* The range over TypesInfo.Uses after the loop over the definitions.
RewriteUses ==
    /\ pc = "loop"
    /\ visited = DefIds(prog)
    /\ identName' = [i \in DOMAIN identName |->
                        IF i \in UseIds(prog) /\ useRef[i] \in DOMAIN renamed
                        THEN renamed[useRef[i]] ELSE identName[i]]
    /\ pc' = "done"
    /\ UNCHANGED <<libVars, prog, pkgPath, renameExported, keepNames, keepPkgs, objName,
                   useRef, scopeDefs, scopeUses, infoDefs, infoUses, selTypes,
                   renamed, xRenamed, visited, cur, curExported, stack, lastDraw,
                   args, argi>>


(***************************************************************************)
(* flag.Parse over the -keep flags (flags.Init).                           *)
(***************************************************************************)
\* flag.Parse hands the next -keep value to keepFlag.Set; an error ends the
\* program (flag.ExitOnError) with what Set had added so far.
FlagSet ==
    /\ pc = "flags"
    /\ argi <= Len(args)
    /\ LET r == keepSet([names |-> keepNames, pkgs |-> keepPkgs], args[argi]) IN
        /\ keepNames' = r.f.names
        /\ keepPkgs' = r.f.pkgs
        /\ pc' = IF r.err THEN "exit" ELSE "flags"
    /\ argi' = argi + 1
    /\ UNCHANGED <<libVars, prog, pkgPath, renameExported, identName, objName, useRef,
                   scopeDefs, scopeUses, infoDefs, infoUses, selTypes, renamed,
                   xRenamed, visited, cur, curExported, stack, lastDraw, args>>

\* flag.Parse returns and the package is handed to Rename.
FlagsParsed ==
    /\ pc = "flags"
    /\ argi > Len(args)
    /\ pc' = "loop"
    /\ UNCHANGED <<libVars, prog, pkgPath, renameExported, keepNames, keepPkgs, identName,
                   objName, useRef, scopeDefs, scopeUses, infoDefs, infoUses,
                   selTypes, renamed, xRenamed, visited, cur, curExported, stack,
                   lastDraw, args, argi>>

(***************************************************************************)
(* The inputs.  Go's lexical scoping decides what a use of "scoped"        *)
(* refers to: Resolve is the set of definitions a name denotes at a        *)
(* position, the same-named definitions of the innermost scope that has    *)
(* any (a type-checked package has exactly one).                           *)
(***************************************************************************)
\* The definitions that live in a lexical scope: objects with a parent and
\* symbolic variables.
ScopedDefs(p) ==
    {d \in DefIds(p) :
        \/ DefObj[d].kind # "nil" /\ DefObj[d].parent # "nil"
        \/ DefObj[d].kind = "nil" /\ \E u \in UseIds(p) : FixedUseRef[u] = d}

\* The scope a scoped definition is declared in.
DeclScope(p, d) == IF DefObj[d].kind = "nil" THEN Innermost(p, d) ELSE DefObj[d].parent

RECURSIVE ResolveFrom(_, _, _, _, _)
ResolveFrom(p, names, s, name, pos) ==
    IF s \in {"universe", "none"} THEN {}
    ELSE LET here == {d \in ScopedDefs(p) :
                        /\ DeclScope(p, d) = s
                        /\ names[d] = name
                        /\ ScopeKind(s) = "local" => d < pos}
         IN  IF here # {} THEN here
             ELSE ResolveFrom(p, names, Parent(s), name, pos)

\* What name denotes at position pos of package p under the names given.
Resolve(p, names, name, pos) == ResolveFrom(p, names, Innermost(p, pos), name, pos)

\* The names G, P, V and W of "scoped" are drawn from.
Pool == {<<"b">>, <<"x">>}

\* The type-checked variants of "scoped": [names, ref].
ScopedInputs ==
    {in \in [names : [IdentIds("scoped") -> Pool \cup {<<"F">>}],
             ref   : [UseIds("scoped") -> DefIds("scoped")]] :
        /\ in.names[10] = <<"F">>
        /\ \A d \in {4, 11, 16, 32} : in.names[d] \in Pool
        /\ in.names[11] # in.names[32]
        /\ \A u \in UseIds("scoped") :
            /\ in.names[u] = in.names[in.ref[u]]
            /\ Resolve("scoped", in.names, in.names[u], u) = {in.ref[u]}}

\* The inputs of package p: [names, ref].
Inputs(p) ==
    IF p = "scoped" THEN ScopedInputs
    ELSE {[names |-> [i \in IdentIds(p) |-> SourceName[i]],
           ref   |-> [u \in UseIds(p) |-> FixedUseRef[u]]]}

\* The state when Rename has built its defRenamer (newDefRenamer) and made
\* its maps, for package p with the input in.
Setup(p, in) ==
    /\ prog = p
    /\ identName = in.names
    /\ objName = in.names
    /\ useRef = in.ref
    /\ scopeDefs = PackageScopeDefs(p, in.names, in.ref)
    /\ scopeUses = PackageScopeUses(p, in.names, in.ref)
    /\ infoDefs = infoDefsOf(p, in.names, in.ref)
    /\ infoUses = infoUsesOf(p, in.names, in.ref)
    /\ selTypes = SelNew(p, in.names)
    /\ renamed = <<>>
    /\ xRenamed = <<>>
    /\ visited = {}
    /\ cur = NoPos
    /\ curExported = FALSE
    /\ stack = <<0>>
    /\ lastDraw = <<>>

\* pkg.PkgPath of the packages.
PkgPaths == {<<"q","q","/","p">>, <<"r">>}

\* Rename is called on a package with no -keep flag given.
Init ==
    /\ \E p \in Progs : \E in \in Inputs(p) : Setup(p, in)
    /\ renameExported \in BOOLEAN
    /\ pkgPath = <<"q","q","/","p">>
    /\ keepNames = {}
    /\ keepPkgs = <<>>
    /\ args = <<>>
    /\ argi = 1
    /\ pc = "loop"
    /\ LibOff

Next ==
    \/ \E d \in DefIds(prog) : Skip(d)
    \/ \E d \in DefIds(prog) : Begin(d)
    \/ DrawSame
    \/ DrawCommit
    \/ DrawReject
    \/ RewriteUses

Spec == Init /\ [][Next]_vars

\* Rename on the packages of LoopProgs, every step of it taken in the end:
\* the program runs until it returns or panics.
InitLoop ==
    /\ \E p \in LoopProgs : \E in \in Inputs(p) : Setup(p, in)
    /\ renameExported \in BOOLEAN
    /\ pkgPath = <<"q","q","/","p">>
    /\ keepNames = {}
    /\ keepPkgs = <<>>
    /\ args = <<>>
    /\ argi = 1
    /\ pc = "loop"
    /\ LibOff

SpecLoop == InitLoop /\ [][Next]_vars /\ WF_vars(Next)


(***************************************************************************)
(* The program from its command line on: flags.Init parses the -keep flags *)
(* and the package is renamed under the keep-list they leave.              *)
(***************************************************************************)
\* The most -keep flags of a command line.
MaxArgs == 2

\* The values the -keep flags are drawn from: "b,p.t", "qq/p.w, r.y" and
\* "t,.w,y" (whose second entry does not parse).
KeepValues ==
    { <<"b",",","p",".","t">>,
      <<"q","q","/","p",".","w",","," ","r",".","y">>,
      <<"t",",",".","w",",","y">> }

RECURSIVE ArgLists(_)
\* The lists of at most n values.
ArgLists(n) ==
    IF n = 0 THEN {<<>>}
    ELSE ArgLists(n - 1) \cup
         {Append(l, v) : l \in {m \in ArgLists(n - 1) : Len(m) = n - 1}, v \in KeepValues}

\* The variant of "scoped" renamed under a keep-list:
\*     var b = 0; func F(x int) { _ = b; { const b = 0; _ = b }; const b = 0 }
KeptScopedInput ==
    [names |-> (4 :> <<"b">>) @@ (10 :> <<"F">>) @@ (11 :> <<"x">>) @@
               (13 :> <<"b">>) @@ (16 :> <<"b">>) @@ (20 :> <<"b">>) @@
               (32 :> <<"b">>),
     ref   |-> (13 :> 4) @@ (20 :> 16)]

InitKeep ==
    /\ \/ Setup("scoped", KeptScopedInput)
       \/ \E in \in Inputs("special") : Setup("special", in)
    /\ renameExported \in BOOLEAN
    /\ pkgPath \in PkgPaths
    /\ keepNames = {}
    /\ keepPkgs = <<>>
    /\ args \in ArgLists(MaxArgs)
    /\ argi = 1
    /\ pc = "flags"
    /\ LibOff

NextKeep ==
    \/ FlagSet
    \/ FlagsParsed
    \/ \E d \in DefIds(prog) : Skip(d)
    \/ \E d \in DefIds(prog) : Begin(d)
    \/ DrawSame
    \/ DrawCommit
    \/ DrawReject
    \/ RewriteUses

SpecKeep == InitKeep /\ [][NextKeep]_vars

(***************************************************************************)
(* internal/idgen on its own: a generator is made from a seed list, one    *)
(* closure is taken from it and called again and again.                    *)
(***************************************************************************)
\* Rename is not running.
DriverOff ==
    /\ prog = "none"
    /\ pkgPath = <<>>
    /\ renameExported = FALSE
    /\ keepNames = {}
    /\ keepPkgs = <<>>
    /\ identName = <<>>
    /\ objName = <<>>
    /\ useRef = <<>>
    /\ scopeDefs = <<>>
    /\ scopeUses = <<>>
    /\ infoDefs = <<>>
    /\ infoUses = <<>>
    /\ selTypes = <<>>
    /\ renamed = <<>>
    /\ xRenamed = <<>>
    /\ visited = {}
    /\ cur = NoPos
    /\ curExported = FALSE
    /\ stack = <<0>>
    /\ lastDraw = <<>>
    /\ args = <<>>
    /\ argi = 1
    /\ pc = "off"

\* The most seeds of a seed list drawn from SeedPool.
MaxSeeds == 3
\* The most calls of one closure.
MaxCalls == 8

\* Seeds: one-character seeds of each class, a two-character seed and one
\* that is no letter or digit.
SeedPool == {<<"a">>, <<"a","a">>, <<"A">>, <<"0">>, <<"-">>}

RECURSIVE SeedListsOf(_)
\* The seed lists of at most n seeds of SeedPool.
SeedListsOf(n) ==
    IF n = 0 THEN {<<>>}
    ELSE SeedListsOf(n - 1) \cup
         {Append(l, e) : l \in {m \in SeedListsOf(n - 1) : Len(m) = n - 1}, e \in SeedPool}

\* The arguments of NewGenerator: the lists over SeedPool, the seeds of the
\* package's tests, and seeds that spell reserved words.
SeedLists ==
    SeedListsOf(MaxSeeds) \cup
    { << <<"A">>, <<"b">>, <<"0">> >>,
      << <<"g">>, <<"o">> >>,
      << <<"i","n","t">>, <<"b">> >> }

\* The arguments forbidden of NewExported and NewUnexported.
Forbids ==
    { [isNil |-> TRUE,  names |-> {}],
      [isNil |-> FALSE, names |-> {<<"A">>}],
      [isNil |-> FALSE, names |-> {<<"a">>, <<"_">>, <<"A","a">>, <<"o">>}] }

InitGen ==
    /\ DriverOff
    /\ LibOffExcept({"gen"})
    /\ \E seeds \in SeedLists, exported \in BOOLEAN, forbidden \in Forbids :
          gen = [seeds |-> seeds, g |-> NewGenerator(seeds), exported |-> exported,
                 forbidden |-> forbidden, stack |-> <<0>>, names |-> <<>>]

\* One call next() of the closure.
GenNext ==
    /\ Len(gen.names) < MaxCalls
    /\ LET r == IF gen.exported THEN NewExported(gen.g, gen.stack, gen.forbidden)
                ELSE NewUnexported(gen.g, gen.stack, gen.forbidden)
       IN  gen' = [gen EXCEPT !.stack = r.stack, !.names = Append(@, r.id)]
    /\ UNCHANGED <<driverVars, mm, imp, run, grp, mt, cd, sel, dq>>

\* The closure is dropped and a new one is taken from the same generator.
GenRestart ==
    /\ Len(gen.names) > 0
    /\ gen' = [gen EXCEPT !.stack = <<0>>, !.names = <<>>]
    /\ UNCHANGED <<driverVars, mm, imp, run, grp, mt, cd, sel, dq>>

NextGen == GenNext \/ GenRestart

SpecGen == InitGen /\ [][NextGen]_vars

(***************************************************************************)
(* internal/renamer/scope: a useMap on its own, under any sequence of its  *)
(* operations.                                                             *)
(***************************************************************************)
\* The most entries of a list, and of one call of Add.
MaxEntries == 3

\* The keys.
MmNames == {<<"x">>, <<"y">>}
\* The definition positions and the entries (defUsePos).
MmDefs == {1, 2}
MmEntries == [Def : MmDefs, Use : {7, 8}]

RECURSIVE MmLists(_)
\* The argument lists pos... of at most n entries.
MmLists(n) ==
    IF n = 0 THEN {<<>>}
    ELSE MmLists(n - 1) \cup
         {Append(l, e) : l \in {m \in MmLists(n - 1) : Len(m) = n - 1}, e \in MmEntries}

InitMm ==
    /\ DriverOff
    /\ LibOffExcept({"mm"})
    /\ mm = <<>>

\* useMap.Add(name, pos...)
MmAdd ==
    /\ \E name \in MmNames, entries \in MmLists(MaxEntries) :
          /\ Len(mmLookup(mm, name)) + Len(entries) <= MaxEntries
          /\ mm' = mmAdd(mm, name, entries)
    /\ UNCHANGED <<driverVars, gen, imp, run, grp, mt, cd, sel, dq>>

\* multiMap.DeleteFunc(name, f) with f the test pos.Def == def.
MmDeleteFunc ==
    /\ \E name \in MmNames, def \in MmDefs :
          mm' = mmDeleteFunc(mm, name, {e \in MmEntries : e.Def = def})
    /\ UNCHANGED <<driverVars, gen, imp, run, grp, mt, cd, sel, dq>>

\* useMap.Rename(name, def, newName)
MmRename ==
    /\ \E name \in MmNames, def \in MmDefs, newName \in MmNames :
          /\ Len(mmLookup(mm, newName)) + Len(mmLookup(mm, name)) <= MaxEntries
          /\ mm' = useMapRename(mm, name, def, newName)
    /\ UNCHANGED <<driverVars, gen, imp, run, grp, mt, cd, sel, dq>>

NextMm == MmAdd \/ MmDeleteFunc \/ MmRename

SpecMm == InitMm /\ [][NextMm]_vars

(***************************************************************************)
(* package main: internalPos, isInternalPackage and canImport.  A package  *)
(* path is the string of its elements joined by slashes.                   *)
(***************************************************************************)
\* strings.HasPrefix
HasPrefix(str, prefix) ==
    /\ Len(str) >= Len(prefix)
    /\ SubSeq(str, 1, Len(prefix)) = prefix

\* strings.LastIndex(s, substr): the index from 0 of the last occurrence,
\* -1 when there is none.
LastIndexStr(s, substr) ==
    LET at == {i \in 0..(Len(s) - Len(substr)) :
                  SubSeq(s, i + 1, i + Len(substr)) = substr}
    IN  IF at = {} THEN -1 ELSE CHOOSE i \in at : \A j \in at : j <= i

InternalElem == <<"i","n","t","e","r","n","a","l">>

\* internalPos
internalPos(path) ==
    IF HasSuffix(path, <<"/">> \o InternalElem)
    THEN Len(path) - Len(<<"/">> \o InternalElem)
    ELSE LastIndexStr(path, <<"/">> \o InternalElem \o <<"/">>)

\* isInternalPackage
isInternalPackage(path) == internalPos(path) > 0

\* canImport with parent cut before the slash: internalPkg[:pi].
canImportBareParent(internalPkg, pkg) ==
    LET pi == internalPos(internalPkg)
        pkg1 == IF ~HasSuffix(pkg, <<"/">>) THEN pkg \o <<"/">> ELSE pkg
    IN  IF pi <= 0 THEN [panic |-> TRUE, ok |-> FALSE]
        ELSE [panic |-> FALSE, ok |-> HasPrefix(pkg1, SubSeq(internalPkg, 1, pi))]

\* canImport: [panic, ok]
canImport(internalPkg, pkg) ==
    LET pi == internalPos(internalPkg)
        pkg1 == IF ~HasSuffix(pkg, <<"/">>) THEN pkg \o <<"/">> ELSE pkg
        parent == SubSeq(internalPkg, 1, pi + 1)
    IN  IF pi <= 0 THEN [panic |-> TRUE, ok |-> FALSE]
        ELSE [panic |-> FALSE, ok |-> HasPrefix(pkg1, parent)]

RECURSIVE JoinPath(_)
\* The package path of a list of path elements.
JoinPath(elems) ==
    IF Len(elems) = 0 THEN <<>>
    ELSE IF Len(elems) = 1 THEN elems[1]
    ELSE elems[1] \o <<"/">> \o JoinPath(Tail(elems))

\* The most elements of a path drawn from PathElems.
MaxElems == 3
PathElems == {<<"a">>, <<"b">>, <<"b","c">>, InternalElem}

RECURSIVE ElemLists(_)
\* The lists of n elements of PathElems and fewer, none empty.
ElemLists(n) ==
    IF n = 1 THEN {<<e>> : e \in PathElems}
    ELSE ElemLists(n - 1) \cup
         {Append(l, e) : l \in {m \in ElemLists(n - 1) : Len(m) = n - 1}, e \in PathElems}

\* The package paths, as lists of elements: those over PathElems and those
\* of Test_canImport.
ImportPaths ==
    ElemLists(MaxElems) \cup
    { <<<<"a">>, <<"b">>, InternalElem, <<"c">>, InternalElem, <<"d">>>>,
      <<<<"a">>, <<"b">>, InternalElem, <<"c">>>>,
      <<<<"a">>, <<"b">>, <<"c">>>> }

InitImp ==
    /\ DriverOff
    /\ LibOffExcept({"imp"})
    /\ \E internalPkg \in ImportPaths :
          imp = [internalPkg |-> internalPkg, pkg |-> <<>>, called |-> FALSE,
                 result |-> [panic |-> FALSE, ok |-> FALSE]]

\* canImport(internalPkg, pkg) is called and returns (or panics).
CanImportCall ==
    /\ ~imp.called
    /\ \E pkg \in ImportPaths :
          imp' = [imp EXCEPT !.pkg = pkg, !.called = TRUE,
                             !.result = canImport(JoinPath(imp.internalPkg), JoinPath(pkg))]
    /\ UNCHANGED <<driverVars, gen, mm, run, grp, mt, cd, sel, dq>>

NextImp == CanImportCall

SpecImp == InitImp /\ [][NextImp]_vars

(***************************************************************************)
(* package main: rename, the run over the loaded packages.  Pass 1 calls   *)
(* renamer.Rename on every package with the exported-rename table, pass 2  *)
(* calls renamer.RenameUsedExports on every package.  Neither function is  *)
(* in the source tree in the form rename calls it: they are taken from     *)
(* sections 4.7 and 4.8 of the specification.  The packages:               *)
(*     m/internal/u:  func Foo() {}        Foo @10                         *)
(*                    var _ = Foo          use @11                         *)
(*     m/internal/v:  func Bar() {}        Bar @20                         *)
(*                    var _ = u.Foo        use @21                         *)
(*     m/top:         func Main() {}       Main @30                        *)
(*                    var _ = u.Foo        use @31                         *)
(*                    var _ = v.Bar        use @32                         *)
(*     n/other:       func Baz() {}        Baz @40                         *)
(***************************************************************************)
RunPkgs == {"u", "v", "top", "other"}

\* packages.Package.PkgPath, as a list of path elements.
RunPkgPath(p) ==
    CASE p = "u"     -> <<<<"m">>, InternalElem, <<"u">>>>
      [] p = "v"     -> <<<<"m">>, InternalElem, <<"v">>>>
      [] p = "top"   -> <<<<"m">>, <<"t","o","p">>>>
      [] p = "other" -> <<<<"n">>, <<"o","t","h","e","r">>>>

\* The exported package-level definitions of a package (TypesInfo.Defs).
RunDefs(p) ==
    CASE p = "u" -> {10} [] p = "v" -> {20} [] p = "top" -> {30} [] p = "other" -> {40}

\* TypesInfo.Uses of a package: use position -> position of its object.
RunUses(p) ==
    CASE p = "u"     -> (11 :> 10)
      [] p = "v"     -> (21 :> 10)
      [] p = "top"   -> (31 :> 10) @@ (32 :> 20)
      [] p = "other" -> <<>>

\* The names of the identifiers in the source.
RunSourceName ==
    (10 :> <<"F","o","o">>) @@ (11 :> <<"F","o","o">>) @@ (21 :> <<"F","o","o">>) @@
    (31 :> <<"F","o","o">>) @@ (20 :> <<"B","a","r">>) @@ (32 :> <<"B","a","r">>) @@
    (30 :> <<"M","a","i","n">>) @@ (40 :> <<"B","a","z">>)

\* The package a definition is declared in.
RunPkgOf(d) == CHOOSE p \in RunPkgs : d \in RunDefs(p)

RECURSIVE FirstFree(_, _, _, _)
\* The candidate loop of Rename for the exported definition d: the first
\* name of the exported stream that no other definition of the package has
\* (d's own name ends the loop without a rename).
FirstFree(p, d, names, stk) ==
    LET r == NextExported(idGen, stk) IN
    IF r.id = names[d] \/ \A o \in RunDefs(p) \ {d} : names[o] # r.id
    THEN r.id
    ELSE FirstFree(p, d, names, r.stack)

RECURSIVE RenameDefs(_, _, _, _)
\* The loop of Rename over the definitions ds of package p, with
\* renameExported true: st is [names, table].
RenameDefs(p, ds, st, k) ==
    IF k > Len(ds) THEN st
    ELSE LET d == ds[k]
             newName == FirstFree(p, d, st.names, <<0>>)
         IN  IF newName = st.names[d] THEN RenameDefs(p, ds, st, k + 1)
             ELSE RenameDefs(p, ds,
                    [names |-> [st.names EXCEPT ![d] = newName],
                     table |-> [st.table EXCEPT !.m = MapPut(st.table.m, d, newName)]],
                    k + 1)

\* renamer.Rename(pkg, idGen, renameExported, renamedExports, keep) on a
\* package of exported definitions: the renames, their record in the table
\* and the rewrite of the uses inside the package.  [names, table]
RenameWithTable(p, renameExp, names, table) ==
    IF ~renameExp THEN [names |-> names, table |-> table]
    ELSE LET st == RenameDefs(p, SetToSeq(RunDefs(p)), [names |-> names, table |-> table], 1)
             uses == RunUses(p)
         IN  [names |-> [i \in DOMAIN st.names |->
                            IF i \in DOMAIN uses /\ uses[i] \in RunDefs(p)
                            THEN st.names[uses[i]] ELSE st.names[i]],
              table |-> st.table]

\* renamer.RenameUsedExports(pkg, renamedExports): every use whose referent
\* is in the table gets the referent's new name.
RenameUsedExports(p, names, table) ==
    LET uses == RunUses(p) IN
    [i \in DOMAIN names |->
        IF i \in DOMAIN uses /\ uses[i] \in DOMAIN table.m
        THEN table.m[uses[i]] ELSE names[i]]

\* The lists of loaded packages.
LoadedLists ==
    {l \in UNION {[1..n -> RunPkgs] : n \in 1..Cardinality(RunPkgs)} :
        \A i, j \in 1..Len(l) : i # j => l[i] # l[j]}

InitRun ==
    /\ DriverOff
    /\ LibOffExcept({"run"})
    /\ \E loaded \in LoadedLists, oie \in BOOLEAN :
          run = [loaded |-> loaded, RenameInternalExports |-> oie, i |-> 1,
                 pc |-> "pass1", names |-> RunSourceName,
                 renamedExports |-> [isNil |-> TRUE, m |-> <<>>]]

\* An iteration of the first loop of rename: the table is made anew for a
\* package whose exports are renamed, and Rename is called.
Pass1 ==
    /\ run.pc = "pass1"
    /\ run.i <= Len(run.loaded)
    /\ LET p == run.loaded[run.i]
           renameExp == isInternalPackage(JoinPath(RunPkgPath(p))) /\ run.RenameInternalExports
           table == IF renameExp THEN [isNil |-> FALSE, m |-> <<>>] ELSE run.renamedExports
           r == RenameWithTable(p, renameExp, run.names, table)
       IN  run' = [run EXCEPT !.names = r.names, !.renamedExports = r.table,
                              !.i = run.i + 1]
    /\ UNCHANGED <<driverVars, gen, mm, imp, grp, mt, cd, sel, dq>>

\* The first loop ends.
Pass1Done ==
    /\ run.pc = "pass1"
    /\ run.i > Len(run.loaded)
    /\ run' = [run EXCEPT !.pc = "pass2", !.i = 1]
    /\ UNCHANGED <<driverVars, gen, mm, imp, grp, mt, cd, sel, dq>>

\* An iteration of the second loop of rename.
Pass2 ==
    /\ run.pc = "pass2"
    /\ run.i <= Len(run.loaded)
    /\ run' = [run EXCEPT
                 !.names = RenameUsedExports(run.loaded[run.i], run.names, run.renamedExports),
                 !.i = run.i + 1]
    /\ UNCHANGED <<driverVars, gen, mm, imp, grp, mt, cd, sel, dq>>

\* The second loop ends: the packages are written.
Pass2Done ==
    /\ run.pc = "pass2"
    /\ run.i > Len(run.loaded)
    /\ run' = [run EXCEPT !.pc = "write"]
    /\ UNCHANGED <<driverVars, gen, mm, imp, grp, mt, cd, sel, dq>>

NextRun == Pass1 \/ Pass1Done \/ Pass2 \/ Pass2Done

SpecRun == InitRun /\ [][NextRun]_vars

(***************************************************************************)
(* package selection: signature.go.  A types.Type is a record with its     *)
(* kind; the types the checker makes one object of (basic types, type      *)
(* parameters, defined types) are equal exactly when they are the same     *)
(* object, and a composite type carries the identity of its object in id,  *)
(* so that t1 = t2 is Go's t1 == t2 on the two pointers.  Types are given  *)
(* unaliased: two mentions of an alias are two records with the same id.   *)
(***************************************************************************)
Basic(name, bkind) == [kind |-> "Basic", name |-> name, bkind |-> bkind]
TypeParam(name, any, terms) == [kind |-> "TypeParam", name |-> name, any |-> any, terms |-> terms]
Named(name) == [kind |-> "Named", name |-> name]
Pointer(id, elem) == [kind |-> "Pointer", id |-> id, elem |-> elem]
Slice(id, elem) == [kind |-> "Slice", id |-> id, elem |-> elem]
Array(id, len, elem) == [kind |-> "Array", id |-> id, len |-> len, elem |-> elem]
Map(id, key, elem) == [kind |-> "Map", id |-> id, key |-> key, elem |-> elem]
Chan(id, dir, elem) == [kind |-> "Chan", id |-> id, dir |-> dir, elem |-> elem]

RECURSIVE Identical(_, _)
\* types.Identical on the types above: the same structure, whatever the
\* objects (byte and uint8 are two objects of one kind).
Identical(t1, t2) ==
    IF t1.kind # t2.kind THEN FALSE
    ELSE CASE t1.kind = "Basic"     -> t1.bkind = t2.bkind
           [] t1.kind = "TypeParam" -> t1.name = t2.name
           [] t1.kind = "Named"     -> t1.name = t2.name
           [] t1.kind = "Pointer"   -> Identical(t1.elem, t2.elem)
           [] t1.kind = "Slice"     -> Identical(t1.elem, t2.elem)
           [] t1.kind = "Array"     -> t1.len = t2.len /\ Identical(t1.elem, t2.elem)
           [] t1.kind = "Map"       -> Identical(t1.key, t2.key) /\ Identical(t1.elem, t2.elem)
           [] t1.kind = "Chan"      -> t1.dir = t2.dir /\ Identical(t1.elem, t2.elem)
           [] OTHER                 -> t1 = t2

\* types.Satisfies(t, constraint) for the constraint of the type parameter
\* tp, a union of terms without ~ and without methods, or any.
Satisfies(t, tp) == tp.any \/ \E term \in tp.terms : Identical(t, term)

\* anyTerm, the term of the keyword any.
anyTerm == [kind |-> "Interface", name |-> "any"]

\* allTerms of the constraint of a type parameter.
allTerms(tp) == IF tp.any THEN {anyTerm} ELSE tp.terms

\* Satisfies(interface{a}, interface{b}) in intersect.
termSatisfies(a, b) == b = anyTerm \/ (a # anyTerm /\ Identical(a, b))

\* intersect: the terms of one list that satisfy a term of the other.
intersect(terms1, terms2) ==
    {a \in terms1 : \E b \in terms2 : termSatisfies(a, b)} \cup
    {b \in terms2 : \E a \in terms1 : ~termSatisfies(a, b) /\ termSatisfies(b, a)}

\* intersectTerms.
intersectTerms(tp1, tp2) == intersect(allTerms(tp1), allTerms(tp2)) # {}

RECURSIVE matchType(_, _)
\* matchType: whether two types can be the same.  The constraints of the
\* type parameters have no methods, so intersectMethodSet is true.
matchType(t1, t2) ==
    IF t1 = t2 THEN TRUE
    ELSE CASE t1.kind = "Basic" ->
                CASE t2.kind = "Basic"     -> Identical(t1, t2)
                  [] t2.kind = "TypeParam" -> Satisfies(t1, t2)
                  [] OTHER                 -> FALSE
           [] t1.kind = "Pointer" ->
                CASE t2.kind = "Pointer"   -> matchType(t1.elem, t2.elem)
                  [] t2.kind = "TypeParam" -> Satisfies(t1, t2)
                  [] OTHER                 -> FALSE
           [] t1.kind = "Slice" ->
                CASE t2.kind = "Slice"     -> matchType(t1.elem, t2.elem)
                  [] t2.kind = "TypeParam" -> Satisfies(t1, t2)
                  [] OTHER                 -> FALSE
           [] t1.kind = "Array" ->
                CASE t2.kind = "Array"     ->
                        t1.len # t2.len /\ matchType(t1.elem, t2.elem)
                  [] t2.kind = "TypeParam" -> Satisfies(t1, t2)
                  [] OTHER                 -> FALSE
           [] t1.kind = "Map" ->
                CASE t2.kind = "Map"       ->
                        matchType(t1.key, t2.key) /\ matchType(t1.elem, t2.elem)
                  [] t2.kind = "TypeParam" -> Satisfies(t1, t2)
                  [] OTHER                 -> FALSE
           [] t1.kind = "Chan" ->
                CASE t2.kind = "Chan"      ->
                        /\ matchType(t1.elem, t2.elem)
                        /\ (t1.dir = "SendRecv" \/ t2.dir = "SendRecv" \/ t1.dir = t2.dir)
                  [] t2.kind = "TypeParam" -> Satisfies(t1, t2)
                  [] OTHER                 -> FALSE
           [] t1.kind = "TypeParam" ->
                CASE t2.kind = "TypeParam" -> intersectTerms(t1, t2)
                  [] OTHER                 -> Satisfies(t2, t1)
           [] t1.kind = "Named" ->
                CASE t2.kind = "Named"     -> Identical(t1, t2)
                  [] t2.kind = "TypeParam" -> Satisfies(t1, t2)
                  [] OTHER                 -> FALSE
           [] OTHER -> TRUE

\* matchTuple: the same length and matching types.
matchTuple(t1, t2) ==
    /\ Len(t1) = Len(t2)
    /\ \A i \in 1..Len(t1) : matchType(t1[i], t2[i])

\* matchSignature: a signature is [variadic, params, results].
matchSignature(sig1, sig2) ==
    /\ sig1.variadic = sig2.variadic
    /\ Len(sig1.params) = Len(sig2.params)
    /\ Len(sig1.results) = Len(sig2.results)
    /\ matchTuple(sig1.params, sig2.params)
    /\ matchTuple(sig1.results, sig2.results)

\* implSameMethod on two *types.Func, [id, sig].
implSameFunc(mtd1, mtd2) ==
    /\ mtd1.id = mtd2.id
    /\ matchSignature(mtd1.sig, mtd2.sig)

(***************************************************************************)
(* GroupMethods on its own (SpecGroup).  The methods are those of          *)
(*     type G[T int | string] struct{}                                     *)
(* and of defined types beside it: a method is named M or N and has one    *)
(* parameter of type int, string or T, or none.                            *)
(***************************************************************************)
MaxMethods == 3

tInt == Basic("int", "int")
tString == Basic("string", "string")
tParamT == TypeParam("T", FALSE, {tInt, tString})

MethodNames == {<<"M">>, <<"N">>}

MethodSigs ==
    {[variadic |-> FALSE, params |-> ps, results |-> <<>>] :
        ps \in {<<>>, <<tInt>>, <<tString>>, <<tParamT>>}}

\* The k-th declared method: Method{ID, F}; F is the *types.Func, which obj
\* tells from the others.
MethodOf(k, name, sig) == [ID |-> k, F |-> [obj |-> k, id |-> name, sig |-> sig]]

\* The sequences of the members of S, each once: the orders a range over a
\* map can take.
OrdersOf(S) ==
    {q \in [1..Cardinality(S) -> S] : \A i, j \in 1..Cardinality(S) : i # j => q[i] # q[j]}

InitGroup ==
    /\ DriverOff
    /\ LibOffExcept({"grp"})
    /\ \E n \in 0..MaxMethods :
        \E names \in [1..n -> MethodNames], sigs \in [1..n -> MethodSigs] :
          grp = [pc |-> "start",
                 methods |-> [k \in 1..n |-> MethodOf(k, names[k], sigs[k])],
                 groups |-> <<>>,
                 c |-> 0,
                 implMap |-> <<>>]

\* GroupMethods, the loop that makes one group for every method: the method
\* and every other method implSameMethod accepts with it.
firstGroups(methods) ==
    [i \in 1..Len(methods) |->
        {methods[i]} \cup
        {methods[j] : j \in {j \in 1..Len(methods) :
                                i # j /\ implSameFunc(methods[i].F, methods[j].F)}}]

\* GroupMethods, the merge loop, without the merge of group2 into group1.
mergeDeleteOnly(groups, i, j) ==
    [k \in 1..(Len(groups) - 1) |-> IF k < j THEN groups[k] ELSE groups[k + 1]]

\* GroupMethods, the merge loop: "merge group2 to group1" and "remove
\* group2" (slices.Delete(groups, j, j+1)).
mergeGroupAt(groups, i, j) ==
    LET g == [groups EXCEPT ![i] = groups[i] \cup groups[j]]
    IN  [k \in 1..(Len(g) - 1) |-> IF k < j THEN g[k] ELSE g[k + 1]]

\* Whether group i has a method that another group contains.
canMerge(groups, i) ==
    \E mtd1 \in groups[i] : \E j \in 1..Len(groups) : i # j /\ mtd1 \in groups[j]

GroupStart ==
    /\ grp.pc = "start"
    /\ grp' = [grp EXCEPT !.pc = "merge", !.groups = firstGroups(grp.methods)]
    /\ UNCHANGED <<driverVars, gen, mm, imp, run, mt, cd, sel, dq>>

\* A pass of "for merged" that merges: the first group1 (range groups) with
\* a method of another group, one of these methods (range over the set),
\* the first group2 that contains it; then break merge.
GroupMerge ==
    /\ grp.pc = "merge"
    /\ \E i \in 1..Len(grp.groups) :
        /\ canMerge(grp.groups, i)
        /\ \A i0 \in 1..(i - 1) : ~canMerge(grp.groups, i0)
        /\ \E mtd1 \in grp.groups[i] :
            \E j \in 1..Len(grp.groups) :
              /\ i # j /\ mtd1 \in grp.groups[j]
              /\ \A j0 \in 1..(j - 1) : ~(i # j0 /\ mtd1 \in grp.groups[j0])
              /\ grp' = [grp EXCEPT !.groups = mergeGroupAt(grp.groups, i, j)]
    /\ UNCHANGED <<driverVars, gen, mm, imp, run, mt, cd, sel, dq>>

\* A pass of "for merged" that merges nothing ends the loop.
GroupMerged ==
    /\ grp.pc = "merge"
    /\ \A i \in 1..Len(grp.groups) : ~canMerge(grp.groups, i)
    /\ grp' = [grp EXCEPT !.pc = IF Len(grp.groups) = 0 THEN "done" ELSE "collect",
                          !.c = 1]
    /\ UNCHANGED <<driverVars, gen, mm, imp, run, mt, cd, sel, dq>>

\* An iteration of the last loop: every method of the group gets the list
\* of the keys of the group, in the order the range over the set yields.
GroupCollect ==
    /\ grp.pc = "collect"
    /\ \E methods \in OrdersOf(grp.groups[grp.c]) :
          grp' = [grp EXCEPT
                    !.implMap = [f \in DOMAIN grp.implMap \cup
                                        {mtd.F : mtd \in grp.groups[grp.c]} |->
                                    IF \E mtd \in grp.groups[grp.c] : mtd.F = f
                                    THEN methods ELSE grp.implMap[f]],
                    !.c = grp.c + 1,
                    !.pc = IF grp.c = Len(grp.groups) THEN "done" ELSE "collect"]
    /\ UNCHANGED <<driverVars, gen, mm, imp, run, mt, cd, sel, dq>>

NextGroup == GroupStart \/ GroupMerge \/ GroupMerged \/ GroupCollect

SpecGroup == InitGroup /\ [][NextGroup]_vars

\* The loop of GroupMethods is a loop of one goroutine: it goes on.
SpecGroupLive == SpecGroup /\ WF_vars(NextGroup)

(***************************************************************************)
(* matchType on its own (SpecMt): a call on two types of a package with    *)
(*     type N1 struct{}; type N2 struct{}                                  *)
(*     func f[T int | string, U any]()                                     *)
(* Composite types are taken one or two levels deep.                       *)
(***************************************************************************)
tByte == Basic("byte", "uint8")
tUint8 == Basic("uint8", "uint8")
tParamU == TypeParam("U", TRUE, {})

LeafTypes == {tInt, tString, tByte, tUint8, tParamT, tParamU, Named("N1"), Named("N2")}

ArrayLens == {2, 3}

\* The composite types over leaves whose object is id.
CompositeTypes(id) ==
    {Pointer(id, e) : e \in LeafTypes} \cup
    {Slice(id, e) : e \in LeafTypes} \cup
    {Array(id, n, e) : n \in ArrayLens, e \in LeafTypes} \cup
    {Chan(id, d, e) : d \in {"SendRecv", "SendOnly", "RecvOnly"}, e \in {tInt, tParamT}} \cup
    {Map(id, k, e) : k \in {tInt, tString}, e \in {tInt, tParamT}}

\* The pointers to and arrays of a pointer or an array: the outer object is
\* outer, the inner one is inner.
NestedTypes(outer, inner) ==
    LET elems == {c \in CompositeTypes(inner) : c.kind \in {"Pointer", "Array"}} IN
    {Pointer(outer, e) : e \in elems} \cup
    {Array(outer, n, e) : n \in ArrayLens, e \in elems}

\* The type and the composite types it is made of.
PartsOf(t) ==
    {t} \cup (IF t.kind \in {"Pointer", "Slice", "Array", "Chan", "Map"} THEN {t.elem} ELSE {})

\* One object is one type: two parts with the same id are the same.
SameIdSameType(t1, t2) ==
    \A a, b \in {p \in PartsOf(t1) \cup PartsOf(t2) : "id" \in DOMAIN p} :
        a.id = b.id => a = b

InitMt ==
    /\ DriverOff
    /\ LibOffExcept({"mt"})
    /\ \E t1 \in LeafTypes \cup CompositeTypes("a") \cup NestedTypes("c", "a"),
          t2 \in LeafTypes \cup CompositeTypes("a") \cup CompositeTypes("b")
                 \cup NestedTypes("d", "a") \cup NestedTypes("d", "b") :
        /\ SameIdSameType(t1, t2)
        /\ mt = [t1 |-> t1, t2 |-> t2, called |-> FALSE, result |-> FALSE]

\* The call matchType(t1, t2).
MatchTypeCall ==
    /\ ~mt.called
    /\ mt' = [mt EXCEPT !.called = TRUE, !.result = matchType(mt.t1, mt.t2)]
    /\ UNCHANGED <<driverVars, gen, mm, imp, run, grp, cd, sel, dq>>

NextMt == MatchTypeCall

SpecMt == InitMt /\ [][NextMt]_vars

(***************************************************************************)
(* CanDef on the scopes PackageScope builds (SpecCd): a call               *)
(* scope.CanDef(name, pos) on a scope of one of the packages, as           *)
(* Test_Scope_CanUse makes them.                                           *)
(***************************************************************************)
\* The names asked for: those of the package and one it does not have.
QueryNames(names) == {names[i] : i \in DOMAIN names} \cup {<<"z">>}

InitCd ==
    /\ \E p \in Progs : \E in \in Inputs(p) :
        /\ Setup(p, in)
        /\ \E s \in ProgScopes(p), name \in QueryNames(in.names),
              pos \in IdentIds(p) \cup {NoPos} :
              cd = [scope |-> s, name |-> name, pos |-> pos,
                    called |-> FALSE, result |-> FALSE]
    /\ renameExported = FALSE
    /\ pkgPath = <<"q","q","/","p">>
    /\ keepNames = {}
    /\ keepPkgs = <<>>
    /\ args = <<>>
    /\ argi = 1
    /\ pc = "scope"
    /\ LibOffExcept({"cd"})

\* The call scope.CanDef(name, pos).
CanDefCall ==
    /\ ~cd.called
    /\ cd' = [cd EXCEPT !.called = TRUE,
                        !.result = CanDef(prog, scopeDefs, scopeUses, cd.scope, cd.name, cd.pos)]
    /\ UNCHANGED <<driverVars, gen, mm, imp, run, grp, mt, sel, dq>>

NextCd == CanDefCall

SpecCd == InitCd /\ [][NextCd]_vars

(***************************************************************************)
(* Selection on its own (SpecSel): selection.New on the package "types",   *)
(* then the calls defRenamer makes: Rename for a field or method,          *)
(* CanRenameEmbedded and RenameEmbedded for a type.                        *)
(***************************************************************************)
\* The most calls made on the Selection.
MaxOps == 2

\* The names of the identifiers of "types" in the source.
TypesSourceName ==
    (200 :> <<"A">>) @@ (202 :> <<"X">>) @@ (210 :> <<"B">>) @@ (213 :> <<"Y">>) @@
    (220 :> <<"C">>) @@ (223 :> <<"Z">>) @@ (230 :> <<"m">>) @@ (240 :> <<"p","m">>) @@
    (250 :> <<"I">>) @@ (252 :> <<"i","m">>) @@ (260 :> <<"P">>) @@ (270 :> <<"U">>)

\* The fields and methods, and the types, of "types".
TypesMembers == {202, 213, 223, 230, 240, 252}
TypesTypes == {200, 210, 220, 250, 260, 270}

\* The candidates the calls are made with.
SelNewNames == {<<"Y">>, <<"Z">>, <<"m">>, <<"q">>, <<"z">>}

InitSel ==
    /\ DriverOff
    /\ LibOffExcept({"sel"})
    /\ sel = [T |-> SelNew("types", TypesSourceName), names |-> TypesSourceName,
              ops |-> 0,
              last |-> [op |-> "New", pos |-> NoPos, name |-> <<>>, newName |-> <<>>,
                        ok |-> TRUE, T |-> <<>>, names |-> <<>>]]

\* defRenamer.RenameFieldMethod: sel.Rename, then id.Name = newName.
SelRename(pos, newName) ==
    /\ sel.ops < MaxOps
    /\ LET r == selRename(sel.T, "types", sel.names[pos], pos, newName) IN
       /\ ~r.panic
       /\ sel' = [T |-> r.T,
                  names |-> IF r.ok THEN [sel.names EXCEPT ![pos] = newName] ELSE sel.names,
                  ops |-> sel.ops + 1,
                  last |-> [op |-> "Rename", pos |-> pos, name |-> sel.names[pos],
                            newName |-> newName, ok |-> r.ok,
                            T |-> sel.T, names |-> sel.names]]
    /\ UNCHANGED <<driverVars, gen, mm, imp, run, grp, mt, cd, dq>>

\* defRenamer.RenameScoped on a type, for the Selection: CanRenameEmbedded,
\* then RenameEmbedded.
SelRenameEmbedded(def, newName) ==
    /\ sel.ops < MaxOps
    /\ LET can == CanRenameEmbedded(sel.T, "types", def, newName) IN
       sel' = [T |-> IF can THEN RenameEmbedded(sel.T, "types", def, newName) ELSE sel.T,
               names |-> IF can THEN [sel.names EXCEPT ![def] = newName] ELSE sel.names,
               ops |-> sel.ops + 1,
               last |-> [op |-> "RenameEmbedded", pos |-> def, name |-> sel.names[def],
                         newName |-> newName, ok |-> can,
                         T |-> sel.T, names |-> sel.names]]
    /\ UNCHANGED <<driverVars, gen, mm, imp, run, grp, mt, cd, dq>>

NextSel ==
    \/ \E pos \in TypesMembers, newName \in SelNewNames : SelRename(pos, newName)
    \/ \E def \in TypesTypes, newName \in SelNewNames : SelRenameEmbedded(def, newName)

SpecSel == InitSel /\ [][NextSel]_vars

(***************************************************************************)
(* The depth queries on their own (SpecDepth): a type store built with the *)
(* constructors as the tests build theirs (newStruct, newDefined, newPtr,  *)
(* AddField, AddEmbedded, AddMethod, AddPtrMethod), then field, method or  *)
(* HasName on one of its types.                                            *)
(***************************************************************************)
\* The most declarations (a field x, a method m with a value receiver, a
\* method pm with a pointer receiver) spread over the struct types.
MaxDecls == 2

\* The struct types S, A, B, A1, A2, B1: the defined type i has the struct
\* literal 10 + i as its underlying type; *i is the pointer to it.
Nodes == 1..6
NodeName == <<(<<"S">>), (<<"A">>), (<<"B">>), (<<"A","1">>), (<<"A","2">>), (<<"B","1">>)>>
LitOf(i) == typeKey(10 + i, FALSE)
DefOf(i) == typeKey(i, FALSE)
PtrOf(i) == typeKey(i, TRUE)

\* The three other types of TestSelection: a pointer to a pointer (to S), a
\* defined type whose underlying type is the defined type A, and a defined
\* type whose underlying type is the pointer to A.
PtrPtr == typeKey(21, TRUE)
DefDef == typeKey(22, FALSE)
DefPtr == typeKey(23, FALSE)

FieldX == <<"x">>
MethodM == <<"m">>
MethodPM == <<"p","m">>
DeclNames == {FieldX, MethodM, MethodPM}

\* The embedding graphs: what each struct embeds, in source order, by value
\* or by pointer.  In "nested" x can be ambiguous inside A and deeper under
\* B; in "diamond" A1 is reached twice at one depth; in "cycle" A and B
\* embed each other by pointer and B1 embeds itself (as the struct of
\* Test_recursive does).  With sPtr, S embeds by pointer.
Shapes == {"chain", "nested", "diamond", "cycle"}
Emb(to, byPtr) == [to |-> to, ptr |-> byPtr]
EmbedsOf(shape, sPtr, i) ==
    CASE shape = "chain" ->
            CASE i = 1 -> <<Emb(2, sPtr)>>
              [] i = 2 -> <<Emb(4, FALSE)>>
              [] OTHER -> <<>>
      [] shape = "nested" ->
            CASE i = 1 -> <<Emb(2, sPtr), Emb(3, sPtr)>>
              [] i = 2 -> <<Emb(4, FALSE), Emb(5, FALSE)>>
              [] i = 3 -> <<Emb(6, FALSE)>>
              [] i = 6 -> <<Emb(4, FALSE)>>
              [] OTHER -> <<>>
      [] shape = "diamond" ->
            CASE i = 1 -> <<Emb(2, sPtr), Emb(3, sPtr)>>
              [] i = 2 -> <<Emb(4, FALSE)>>
              [] i = 3 -> <<Emb(4, FALSE)>>
              [] OTHER -> <<>>
      [] shape = "cycle" ->
            CASE i = 1 -> <<Emb(2, sPtr)>>
              [] i = 2 -> <<Emb(3, TRUE), Emb(4, FALSE)>>
              [] i = 3 -> <<Emb(2, TRUE), Emb(6, FALSE)>>
              [] i = 6 -> <<Emb(6, FALSE)>>
              [] OTHER -> <<>>

\* The sets of at most k elements of S.
RECURSIVE SubsetsUpTo(_, _)
SubsetsUpTo(S, k) ==
    IF k = 0 THEN {{}}
    ELSE LET P == SubsetsUpTo(S, k - 1) IN P \cup {q \cup {e} : q \in P, e \in S}

\* The struct types that declare: A, A1 and A2.
DeclNodes == {2, 4, 5}

\* The declarations: pairs <<struct type, name>>.
Decls == SubsetsUpTo(DeclNodes \X DeclNames, MaxDecls)

\* s.AddEmbedded(name, t) for the members of struct type i from the j-th on.
RECURSIVE addEmbeddedFrom(_, _, _)
addEmbeddedFrom(t, embeds, j) ==
    IF j > Len(embeds) THEN t
    ELSE addEmbeddedFrom(
            stAddEmbedded(t, NodeName[embeds[j].to],
                          IF embeds[j].ptr THEN PtrOf(embeds[j].to) ELSE DefOf(embeds[j].to)),
            embeds, j + 1)

\* The store: for every struct type its literal (newStruct, AddField,
\* AddEmbedded), its defined type (newDefined, AddMethod, AddPtrMethod) and
\* the pointer to it (newPtr), and the three other types.
RECURSIVE DepthStoreFrom(_, _, _, _)
DepthStoreFrom(shape, sPtr, decl, i) ==
    IF i > Len(NodeName) THEN <<>>
    ELSE (LitOf(i) :> addEmbeddedFrom(
                          [newStruct EXCEPT !.fields =
                              IF <<i, FieldX>> \in decl THEN {FieldX} ELSE {}],
                          EmbedsOf(shape, sPtr, i), 1)) @@
         (DefOf(i) :> [newDefined(LitOf(i)) EXCEPT
                          !.methods = IF <<i, MethodM>> \in decl THEN {MethodM} ELSE {},
                          !.ptrMethods = IF <<i, MethodPM>> \in decl THEN {MethodPM} ELSE {}]) @@
         (PtrOf(i) :> newPtr(DefOf(i))) @@
         DepthStoreFrom(shape, sPtr, decl, i + 1)

DepthStore(shape, sPtr, decl) ==
    DepthStoreFrom(shape, sPtr, decl, 1) @@
    (PtrPtr :> newPtr(PtrOf(1))) @@
    (DefDef :> newDefined(DefOf(2))) @@
    (DefPtr :> newDefined(PtrOf(2)))

\* The types asked: S and A, by value and through a pointer, the struct
\* literal of S, and the three other types.
DepthKeys == {DefOf(1), PtrOf(1), DefOf(2), PtrOf(2), LitOf(1),
              PtrPtr, DefDef, DefPtr}

\* The names asked for: the three that can be declared, and an embedded
\* member.
DepthNames == DeclNames \cup {NodeName[4]}

\* The entry points.
DepthQueries == {"field", "method", "HasName"}

InitDepth ==
    /\ DriverOff
    /\ LibOffExcept({"dq"})
    /\ \E shape \in Shapes, sPtr \in BOOLEAN, decl \in Decls :
          dq = [shape |-> shape, sPtr |-> sPtr, decl |-> decl,
                called |-> FALSE, f |-> "", k |-> NoType, name |-> <<>>,
                depth |-> -1, visited |-> {}]

\* field(t, name), method(t, name) or HasName(t, name): the query starts
\* with an empty set visited.
DepthCall(f, k, name) ==
    /\ ~dq.called
    /\ LET T == DepthStore(dq.shape, dq.sPtr, dq.decl)
           rf == typField(T, k, name, {})
           rm == typMethod(T, k, name, {})
           r == CASE f = "field" -> rf
                  [] f = "method" -> rm
                  [] f = "HasName" ->
                        IF rf.depth > -1 THEN rf
                        ELSE Result(rm.depth, rf.visited \cup rm.visited)
       IN  dq' = [dq EXCEPT !.called = TRUE, !.f = f, !.k = k, !.name = name,
                            !.depth = r.depth, !.visited = r.visited]
    /\ UNCHANGED <<driverVars, gen, mm, imp, run, grp, mt, cd, sel>>

NextDepth ==
    \E f \in DepthQueries, k \in DepthKeys, name \in DepthNames : DepthCall(f, k, name)

SpecDepth == InitDepth /\ [][NextDepth]_vars

(***************************************************************************)
(* The properties.                                                         *)
(***************************************************************************)
\* A step that commits a rename of the current definition.
Commits == pc = "draw" /\ renamed' # renamed

\* A step that commits a scoped rename (RenameScoped returned true).
CommitsScoped == Commits /\ ~isFieldMethod(cur)

\* The uses that refer to definition d.
UsesOf(d) == {u \in UseIds(prog) : useRef[u] = d}

\* C1: after a successful scoped rename of a definition d to a new name,
\* every use of d, looked up by lexical scoping under the new name at the
\* use's own position, resolves to d.
C1_UsesStillResolve ==
    [][CommitsScoped =>
        \A u \in UsesOf(cur) :
            Resolve(prog, identName', identName'[cur], u) = {cur}]_vars


\* The uses that refer to a scoped definition other than d.
UsesOfOthers(d) ==
    {u \in UseIds(prog) : useRef[u] \in ScopedDefs(prog) /\ useRef[u] # d}

C3_NoDuplicateInScope ==
    \A d1 \in ScopedDefs(prog) : \A d2 \in ScopedDefs(prog) :
        (d1 # d2 /\ DeclScope(prog, d1) = DeclScope(prog, d2))
            => identName[d1] # identName[d2]

\* Whether the definition at position d carries another name than before
\* the pass.
Changed(d) == identName[d] # objName[d]

\* C4: when the pass has finished, every use whose referent was renamed
\* carries the referent's new name, and every use whose referent was not
\* renamed carries the name it had before the pass.
C4_UsesFollowReferent ==
    pc = "done" =>
        \A u \in UseIds(prog) :
            IF useRef[u] \in DefIds(prog) /\ Changed(useRef[u])
            THEN identName[u] = identName[useRef[u]]
            ELSE identName[u] = objName[u]

\* The same without the uses of embedded fields.
C4_ExceptEmbedded ==
    pc = "done" =>
        \A u \in UseIds(prog) :
            (useRef[u] \in DefIds(prog) => ~DefObj[useRef[u]].embedded) =>
                IF useRef[u] \in DefIds(prog) /\ Changed(useRef[u])
                THEN identName[u] = identName[useRef[u]]
                ELSE identName[u] = objName[u]

\* The declared methods of the package (GroupMethods, first loop).
Methods(p) == {d \in DefIds(p) : DefObj[d].kind = "func" /\ DefObj[d].recv}

\* The *types.Func of a function or method of the package.
FuncOf(d) ==
    [obj |-> d, id |-> objName[d],
     sig |-> [variadic |-> DefObj[d].variadic,
              params |-> IF ~DefObj[d].params THEN <<>>
                         ELSE IF DefObj[d].param0 = "int" THEN <<tInt>>
                         ELSE <<Pointer(d, Named("testing.T"))>>,
              results |-> <<>>]]

\* implSameMethod: the same Id and matching signatures.
implSameMethod(m1, m2) == implSameFunc(FuncOf(m1), FuncOf(m2))

RECURSIVE mergeGroups(_, _)
\* The merge loop of GroupMethods: the methods of the group of m.
mergeGroups(p, group) ==
    LET more == {m2 \in Methods(p) : \E m1 \in group : implSameMethod(m1, m2)}
    IN  IF more \subseteq group THEN group ELSE mergeGroups(p, group \cup more)

\* GroupMethods: implMap[m].
GroupMethods(p, m) == mergeGroups(p, {m})

\* C5: whenever a method is renamed, every member of its class is renamed
\* to the same name in the same commit.
C5_ClassRenamedTogether ==
    [][(Commits /\ cur \in Methods(prog)) =>
        \A m \in GroupMethods(prog, cur) : identName'[m] = identName'[cur]]_vars

\* The embedded fields of the package whose type is the type defined at t.
EmbeddedOf(t) ==
    {e \in DefIds(prog) \cap UseIds(prog) : DefObj[e].embedded /\ useRef[e] = t}

\* C6: when the pass has finished and a type was renamed, every embedded
\* field of that type carries the new name in the selector model, in the
\* struct declaration and in every selector use of the field.
C6_EmbeddedFollowsType ==
    pc = "done" =>
        \A t \in DOMAIN renamed : \A e \in EmbeddedOf(t) :
            /\ \E i \in 1..Len(selTypes[fmm(prog)[e]].embedded) :
                  /\ selTypes[fmm(prog)[e]].embedded[i].t = typeKey(t, FALSE)
                  /\ selTypes[fmm(prog)[e]].embedded[i].name = renamed[t]
            /\ identName[e] = renamed[t]
            /\ \A u \in UsesOf(e) : identName[u] = renamed[t]

\* Whether the definition at d is exported: a package-scope object, a field
\* or a method whose name starts with an upper-case letter.
ExportedDef(d) ==
    /\ DefObj[d].kind # "nil"
    /\ DefObj[d].parent \in {"pkg", "nil"}
    /\ IsExported(objName[d])

\* C7: with renameExported false no exported definition is handed to a
\* rename operation or changes name, and no use of one is rewritten.
C7_ExportedUntouched ==
    ~renameExported =>
        /\ cur # NoPos => ~ExportedDef(cur)
        /\ \A d \in DefIds(prog) :
              ExportedDef(d) =>
                  /\ ~Changed(d) /\ d \notin DOMAIN renamed
                  /\ \A u \in UsesOf(d) : identName[u] = objName[u]

\* Whether the definition at d is a blank identifier, a dot import, the
\* package-clause identifier or a package init function.
NeverRenamed(d) ==
    \/ objName[d] = <<"_">> \/ objName[d] = <<".">>
    \/ DefObj[d].kind = "nil" /\ UsesOf(d) = {}
    \/ DefObj[d].kind = "func" /\ objName[d] = <<"i","n","i","t">> /\ ~DefObj[d].recv

\* C8: the pass never changes the name of a blank identifier, a dot import,
\* the package-clause identifier or a package init function.
C8_SpecialUntouched ==
    \A d \in DefIds(prog) :
        NeverRenamed(d) => ~Changed(d) /\ d \notin DOMAIN renamed /\ cur # d

\* C9: a test function is never renamed by the pass.
C9_TestFuncUntouched ==
    \A d \in DefIds(prog) : isTestFunc(d, objName[d]) => ~Changed(d)


\* The keepFlag of the state.
keepFlag == [names |-> keepNames, pkgs |-> keepPkgs]

RECURSIVE AcceptedOf(_, _)
\* The entries of a list of flags that setFlag accepts before Set returns:
\* those before the first that does not parse, trimmed.
AcceptedOf(flagList, i) ==
    IF i > Len(flagList) THEN {}
    ELSE IF parseKeepFlag(TrimSpace(flagList[i])).name = <<>> THEN {}
    ELSE {TrimSpace(flagList[i])} \cup AcceptedOf(flagList, i + 1)

\* The entries registered by the Set calls made so far.
Registered ==
    UNION {AcceptedOf(Split(args[k], ","), 1) : k \in 1..(argi - 1)}

\* The names membership is asked for: those of the package's identifiers.
ProbeNames == {objName[i] : i \in DOMAIN objName}

\* C10: a definition whose name is on the keep-list is never renamed, and
\* Contains(pkgPath, name) is true exactly when name, pkgPath.name or
\* base(pkgPath).name was registered.
C10_KeepList ==
    /\ \A d \in DefIds(prog) :
          keepContains(keepFlag, pkgPath, objName[d]) =>
              ~Changed(d) /\ d \notin DOMAIN renamed
    /\ LET registered == Registered IN
       \A pth \in PkgPaths : \A name \in ProbeNames :
          keepContains(keepFlag, pth, name) <=>
              \/ name \in registered
              \/ pth \o <<".">> \o name \in registered
              \/ pathBase(pth) \o <<".">> \o name \in registered


C7_Witness ==
    /\ ~renameExported /\ pc = "done" /\ renamed # <<>>
    /\ \E d \in DefIds(prog) : ExportedDef(d) /\ UsesOf(d) # {}
    /\ \E d \in DefIds(prog) : isFieldMethod(d) /\ ExportedDef(d)

\* C8 is exercised: a pass has finished on a package that has a blank
\* identifier, a dot import, a package clause and an init function, and it
\* renamed something.
C8_Witness ==
    /\ pc = "done" /\ renamed # <<>>
    /\ \E d \in DefIds(prog) : objName[d] = <<"_">>
    /\ \E d \in DefIds(prog) : objName[d] = <<".">>
    /\ \E d \in DefIds(prog) : DefObj[d].kind = "nil" /\ UsesOf(d) = {}
    /\ \E d \in DefIds(prog) : isInitFunc(d, objName[d])

\* C10 is exercised: a pass has finished that renamed something and kept a
\* definition registered with its package's base name only, while another
\* package's entry for a name of this package did not keep it.
C10_Witness ==
    /\ pc = "done" /\ renamed # <<>>
    /\ \E d \in DefIds(prog) :
          /\ keepContains(keepFlag, pkgPath, objName[d])
          /\ objName[d] \notin Registered
          /\ pkgPath \o <<".">> \o objName[d] \notin Registered
          /\ DefObj[d].kind = "var"
    /\ \E d \in DOMAIN renamed : \E e \in Registered :
          /\ Len(e) > Len(objName[d])
          /\ SubSeq(e, Len(e) - Len(objName[d]) + 1, Len(e)) = objName[d]


(***************************************************************************)
(* The properties of internal/idgen (SpecGen).                             *)
(***************************************************************************)
\* The names a closure must not yield: the caller's and the reserved ones.
GenForbidden == gen.forbidden.names \cup reserved

\* C11: no closure of NewExported(forbid) or NewUnexported(forbid) yields a
\* name of the caller's forbid set or of the language-reserved list, for any
\* seed list and any number of calls.
C11_NeverForbidden ==
    \A i \in 1..Len(gen.names) : gen.names[i] \notin GenForbidden

\* The seeds g, o spell the keyword go: an unexported closure has passed it.
C11_Witness ==
    /\ gen.seeds = << <<"g">>, <<"o">> >>
    /\ ~gen.exported
    /\ gen.forbidden.isNil
    /\ gen.names = << <<"g">>, <<"o">>, <<"g","g">>, <<"o","g">> >>

\* C12: the names returned by the successive calls of one closure are
\* pairwise different, for any seed list NewGenerator accepts.
C12_NoDuplicates ==
    \A i, j \in 1..Len(gen.names) : i # j => gen.names[i] # gen.names[j]

RECURSIVE Pow(_, _)
Pow(b, e) == IF e = 0 THEN 1 ELSE b * Pow(b, e - 1)

\* The seeds a generator accepts, in seed order: the first occurrences of
\* the seeds made of letters, digits and underscores.
AcceptedSeeds(seeds) ==
    LET ok(i) == /\ Len(seeds[i]) > 0
                 /\ \A c \in 1..Len(seeds[i]) : seeds[i][c] \in IdChars
                 /\ \A j \in 1..(i - 1) : seeds[j] # seeds[i]
        idx == SetToSeq({i \in 1..Len(seeds) : ok(i)})
    IN  [k \in 1..Len(idx) |-> seeds[idx[k]]]

\* The leading class: the accepted seeds that begin with an upper-case
\* letter (exported), or with another letter or an underscore (unexported;
\* a seed that begins with a digit begins no identifier); the default A or _
\* when there are none.
LeadingSeeds(seeds, exported) ==
    LET acc == AcceptedSeeds(seeds)
        lead(e) == IF exported THEN e[1] \in UpperChars
                   ELSE e[1] \in LowerChars \cup {"_"}
        cls == SelectSeq(acc, lead)
    IN  IF Len(cls) > 0 THEN cls
        ELSE IF exported THEN << <<"A">> >> ELSE << <<"_">> >>

\* The continuation elements: the accepted seeds; the two defaults when no
\* seed was accepted.
ContinuationSeeds(seeds) ==
    LET acc == AcceptedSeeds(seeds)
    IN  IF Len(acc) > 0 THEN acc ELSE << <<"A">>, <<"_">> >>

RECURSIVE OdometerAt(_, _, _, _)
\* The n-th name (from 0) of the odometer among the names of k elements and
\* more: the names of k elements come first, the leading element varies
\* slowest and the last one fastest.
OdometerAt(lead, cont, n, k) ==
    LET L == Len(lead)
        B == Len(cont)
        count == L * Pow(B, k - 1)
    IN  IF n >= count THEN OdometerAt(lead, cont, n - count, k + 1)
        ELSE lead[(n \div Pow(B, k - 1)) + 1] \o
             Concat([j \in 1..(k - 1) |-> cont[((n \div Pow(B, k - 1 - j)) % B) + 1]])

RECURSIVE OdometerNames(_, _, _, _, _)
\* The first m names of the odometer from the n-th on that are not
\* forbidden.
OdometerNames(lead, cont, forbidden, n, m) ==
    IF m = 0 THEN <<>>
    ELSE LET id == OdometerAt(lead, cont, n, 1)
         IN  IF id \in forbidden
             THEN OdometerNames(lead, cont, forbidden, n + 1, m)
             ELSE <<id>> \o OdometerNames(lead, cont, forbidden, n + 1, m - 1)

\* C13: a closure enumerates the names as an odometer: forbidden names set
\* aside, the names of k elements come before those of k+1 elements, the
\* first element is of the leading class (or its default), every further
\* element ranges over the accepted seeds in seed order with the last
\* position varying fastest, and a default leading character is no
\* continuation character when seeds were accepted.
C13_Odometer ==
    gen.names = OdometerNames(LeadingSeeds(gen.seeds, gen.exported),
                              ContinuationSeeds(gen.seeds), GenForbidden,
                              0, Len(gen.names))

\* Seeds A, 0 and an unexported closure: _, _A, _0, _AA, _A0, _0A, _00, _AAA.
C13_Witness ==
    /\ gen.seeds = << <<"A">>, <<"0">> >>
    /\ ~gen.exported
    /\ gen.names = << <<"_">>, <<"_","A">>, <<"_","0">>, <<"_","A","A">>,
                      <<"_","A","0">>, <<"_","0","A">>, <<"_","0","0">>,
                      <<"_","A","A","A">> >>


(***************************************************************************)
(* The property of the multimap (SpecMm).                                  *)
(***************************************************************************)
\* C14: after any sequence of Add, DeleteFunc and Rename calls (Add with no
\* entries and calls on an absent key among them), no key of the map is
\* associated with an empty list.
C14_NoEmptyList == \A name \in DOMAIN mm : Len(mm[name]) > 0


(***************************************************************************)
(* The property of canImport (SpecImp).                                    *)
(***************************************************************************)
\* The index of the last element internal of a path, 0 when it has none.
LastInternal(elems) ==
    LET at == {i \in 1..Len(elems) : elems[i] = InternalElem}
    IN  IF at = {} THEN 0 ELSE CHOOSE i \in at : \A j \in at : j <= i

\* pkg is parent or a descendant of it, for paths as lists of elements.
IsPathOrBelow(pkg, parent) ==
    /\ Len(pkg) >= Len(parent)
    /\ SubSeq(pkg, 1, Len(parent)) = parent

\* C15: for an internal package path (a path with elements before its last
\* element internal), canImport(internalPkg, pkg) is true exactly when pkg
\* is the path before that last internal element or a descendant of it.
C15_CanImport ==
    LET k == LastInternal(imp.internalPkg) IN
    (imp.called /\ k > 1) =>
        /\ ~imp.result.panic
        /\ imp.result.ok = IsPathOrBelow(imp.pkg, SubSeq(imp.internalPkg, 1, k - 1))

\* a/b/internal/c/internal/d is importable from a/b/internal/c.
C15_Witness ==
    /\ imp.called
    /\ imp.internalPkg = <<<<"a">>, <<"b">>, InternalElem, <<"c">>, InternalElem, <<"d">>>>
    /\ imp.pkg = <<<<"a">>, <<"b">>, InternalElem, <<"c">>>>
    /\ imp.result.ok


(***************************************************************************)
(* The property of the run over the packages (SpecRun).                    *)
(***************************************************************************)
\* Whether package p of a path with its parent can import internal package q.
RunCanImport(q, p) ==
    LET k == LastInternal(RunPkgPath(q)) IN
    k > 1 /\ IsPathOrBelow(RunPkgPath(p), SubSeq(RunPkgPath(q), 1, k - 1))

\* C16: the exported-rename table accumulates over the packages of pass 1:
\* after the whole run, every use, in another loaded package that can import
\* it, of an exported definition renamed in an internal package carries the
\* definition's new name, also when several internal packages are renamed.
C16_ExportsPropagate ==
    run.pc = "write" =>
        \A q, p \in {run.loaded[i] : i \in 1..Len(run.loaded)} :
            \A d \in RunDefs(q), u \in DOMAIN RunUses(p) :
                (/\ p # q
                 /\ RunUses(p)[u] = d
                 /\ run.names[d] # RunSourceName[d]
                 /\ RunCanImport(q, p))
                => run.names[u] = run.names[d]

(***************************************************************************)
(* The properties of GroupMethods (SpecGroupLive).                         *)
(***************************************************************************)
\* Whether implSameMethod accepts two methods, one way or the other.
ImplLinked(m1, m2) == implSameFunc(m1.F, m2.F) \/ implSameFunc(m2.F, m1.F)

RECURSIVE ImplClosure(_, _)
\* The methods of all that a chain of linked methods joins to one of class.
ImplClosure(all, class) ==
    LET more == {m2 \in all : \E m1 \in class : ImplLinked(m1, m2)}
    IN  IF more \subseteq class THEN class ELSE ImplClosure(all, class \cup more)

\* The members of a list.
Members(list) == {list[i] : i \in 1..Len(list)}

\* The result of GroupMethods is a partition of the methods into the
\* classes of the closure.
IsPartition ==
    LET all == Members(grp.methods) IN
    /\ DOMAIN grp.implMap = {m.F : m \in all}
    /\ \A m \in all :
        /\ m \in Members(grp.implMap[m.F])
        /\ Len(grp.implMap[m.F]) = Cardinality(Members(grp.implMap[m.F]))
        /\ Members(grp.implMap[m.F]) = ImplClosure(all, {m})
        /\ \A m2 \in Members(grp.implMap[m.F]) : grp.implMap[m2.F] = grp.implMap[m.F]

\* C17: GroupMethods returns a partition of the declared methods: every
\* method is a key, implMap[m] contains m, all members of a list map to that
\* same list, the classes are the symmetric-transitive closure of
\* implSameMethod, and the merge loop terminates.
C17_GroupsPartition ==
    /\ [](grp.pc = "done" => IsPartition)
    /\ <>(grp.pc = "done")

\* Three methods M(int), M(T), M(string) end in one class although
\* implSameMethod rejects M(int) with M(string).
C17_Witness ==
    /\ grp.pc = "done"
    /\ \E a, b, c \in Members(grp.methods) :
        /\ a.F.sig.params = <<tInt>> /\ c.F.sig.params = <<tString>>
        /\ b.F.sig.params = <<tParamT>>
        /\ ~implSameFunc(a.F, c.F)
        /\ Members(grp.implMap[a.F]) = {a, b, c}

(***************************************************************************)
(* The property of matchType (SpecMt).                                     *)
(***************************************************************************)
\* C18: matchType on two array types is true exactly when the arrays have
\* the same length and their element types match.
C18_ArraysMatch ==
    (mt.called /\ mt.t1.kind = "Array" /\ mt.t2.kind = "Array") =>
        (mt.result <=> (mt.t1.len = mt.t2.len /\ matchType(mt.t1.elem, mt.t2.elem)))

(***************************************************************************)
(* The properties of CanDef (SpecCd), stated on the package: the           *)
(* identifiers, their names and the scopes they lie in.                    *)
(***************************************************************************)
RECURSIVE IsWithin(_, _)
\* Whether scope s is scope a or lies below it.
IsWithin(s, a) ==
    IF s = a THEN TRUE
    ELSE IF s \in {"universe", "pkg", "none"} THEN FALSE
    ELSE IsWithin(Parent(s), a)

\* The definitions of the package named name that are declared in scope s.
DeclaredIn(s, name) ==
    {d \in ScopedDefs(prog) : DeclScope(prog, d) = s /\ identName[d] = name}

\* The uses of name after pos in scope s or below it.
UsedAfterIn(s, name, pos) ==
    {u \in UseIds(prog) :
        identName[u] = name /\ u > pos /\ IsWithin(Innermost(prog, u), s)}

\* C19: CanDef(name, pos) on a local scope is false exactly when the name
\* is already defined in that scope, at any position, or a use of the name
\* at a position after pos lies in that scope or in a scope below it.
C19_LocalCanDef ==
    (cd.called /\ ScopeKind(cd.scope) = "local") =>
        (~cd.result <=>
            \/ DeclaredIn(cd.scope, cd.name) # {}
            \/ UsedAfterIn(cd.scope, cd.name, cd.pos) # {})

\* CanDef is false on a function scope only for a use in a block below it,
\* and CanDef of the same name is true on the function beside it.
C19_Witness ==
    /\ cd.called /\ ~cd.result
    /\ ScopeKind(cd.scope) = "local"
    /\ DeclaredIn(cd.scope, cd.name) = {}
    /\ \A u \in UsedAfterIn(cd.scope, cd.name, cd.pos) : Innermost(prog, u) # cd.scope
    /\ \E sib \in ProgScopes(prog) :
        /\ sib # cd.scope /\ ScopeKind(sib) = "local" /\ Parent(sib) = Parent(cd.scope)
        /\ CanDef(prog, scopeDefs, scopeUses, sib, cd.name, cd.pos)

\* The function scope that scope s lies in.
FuncScopeOf(s) == CHOOSE f \in LocalScopes : IsWithin(s, f) /\ ScopeKind(Parent(f)) = "file"

\* The parameters and locals named name of the functions that use the
\* package-level definition at pos.
ShadowingLocals(name, pos) ==
    {d \in ScopedDefs(prog) :
        /\ identName[d] = name
        /\ ScopeKind(DeclScope(prog, d)) = "local"
        /\ \E u \in UseIds(prog) :
              useRef[u] = pos /\ ScopeContains(FuncScopeOf(DeclScope(prog, d)), u)}

\* C20: CanDef(name, pos) on the package scope, pos the position of a
\* package-level definition, is false when the name is defined at package
\* level, in a file scope (an imported package name), or as a parameter or
\* local of a function that uses the definition at pos.
C20_PkgCanDef ==
    (/\ cd.called /\ cd.scope = "pkg"
     /\ cd.pos \in ScopedDefs(prog) /\ DeclScope(prog, cd.pos) = "pkg")
    =>
        ((\/ DeclaredIn("pkg", cd.name) # {}
          \/ \E f \in {FileOf(prog)} : cd.name \in DOMAIN scopeDefs[f]
          \/ ShadowingLocals(cd.name, cd.pos) # {})
         => ~cd.result)

(***************************************************************************)
(* The frame of RenameChildren (Spec).                                     *)
(***************************************************************************)
\* The entries of a list of a use table.
EntriesOf(m, name) == {mmLookup(m, name)[i] : i \in 1..Len(mmLookup(m, name))}

\* C21: RenameChildren(oldName, defPos, newName) changes only the definition
\* entry whose position is defPos and the use entries whose definition is
\* defPos: in every scope, a definition entry of another position and a use
\* entry of another definition keep their key.
C21_RenameChildrenFrame ==
    [][CommitsScoped =>
        \A s \in ProgScopes(prog) :
            /\ \A n \in DOMAIN scopeDefs[s] :
                  scopeDefs[s][n] # cur =>
                      MapGet(scopeDefs'[s], n) = scopeDefs[s][n]
            /\ \A n \in DOMAIN scopeUses[s] :
                  \A e \in EntriesOf(scopeUses[s], n) :
                      e.Def # cur => e \in EntriesOf(scopeUses'[s], n)]_vars

(***************************************************************************)
(* The declarations of "types", read off its source, and what Go selects   *)
(* on them (SpecSel).                                                      *)
(***************************************************************************)
\* The fields, the embedded types and the methods each type declares.
TypesOwnFields == (200 :> {202}) @@ (210 :> {213}) @@ (220 :> {223}) @@
                  (250 :> {}) @@ (260 :> {}) @@ (270 :> {})
TypesEmbeds == (200 :> {}) @@ (210 :> {200}) @@ (220 :> {210}) @@
               (250 :> {}) @@ (260 :> {200, 270}) @@ (270 :> {})
TypesMethods == (200 :> {240}) @@ (210 :> {230}) @@ (220 :> {}) @@
                (250 :> {252}) @@ (260 :> {}) @@ (270 :> {})

\* The type a field or method belongs to.
TypesOwner == (202 :> 200) @@ (213 :> 210) @@ (223 :> 220) @@
              (230 :> 210) @@ (240 :> 200) @@ (252 :> 250)

\* The names a selector on type t can name: its fields, its embedded
\* fields, its methods, and what its embedded fields promote.  No two
\* members of a struct of "types" ever provide one name at one depth.
RECURSIVE SelectableNames(_, _)
SelectableNames(names, t) ==
    {names[f] : f \in TypesOwnFields[t] \cup TypesEmbeds[t] \cup TypesMethods[t]}
    \cup UNION {SelectableNames(names, e) : e \in TypesEmbeds[t]}

\* The types that embed t, directly and then transitively.
DirectEmbedders(t) == {e \in TypesTypes : t \in TypesEmbeds[e]}
RECURSIVE UpEmbedders(_)
UpEmbedders(t) ==
    DirectEmbedders(t) \cup UNION {UpEmbedders(e) : e \in DirectEmbedders(t)}

\* C22: a field or method rename is accepted only if newName is not already
\* selectable (as field or method, direct or promoted) on the owning type
\* and on every type that embeds it, transitively upward.
C22_RenameOnlyIfFree ==
    (sel.last.op = "Rename" /\ sel.last.ok)
    => \A t \in {TypesOwner[sel.last.pos]} \cup UpEmbedders(TypesOwner[sel.last.pos]) :
           sel.last.newName \notin SelectableNames(sel.last.names, t)

\* C23: CanRenameEmbedded(defPos, newName) is true exactly when newName
\* collides with no selection of any struct embedding the type: no field,
\* no other embedded field, no promoted name, and no method declared on the
\* defined type whose underlying struct is the embedder.
C23_CanRenameEmbeddedExact ==
    (/\ sel.last.op = "RenameEmbedded"
     /\ sel.last.newName # sel.last.name)
    => (sel.last.ok <=>
            \A e \in DirectEmbedders(sel.last.pos) :
                sel.last.newName \notin SelectableNames(sel.last.names, e))

\* C27: after a successful Rename(old, pos, new) the owner's name set holds
\* new and not old: a depth query on the owner (fmm[pos]: the pointer type
\* for a pointer-receiver method) finds new at depth 0 and not old.
C27_RenameMovesName ==
    (sel.last.op = "Rename" /\ sel.last.ok)
    => /\ HasName(sel.T, fmm("types")[sel.last.pos], sel.last.newName) = 0
       /\ HasName(sel.T, fmm("types")[sel.last.pos], sel.last.name) # 0

\* C28: after any sequence of RenameEmbedded commits, for every struct the
\* field query returns 0 for the current name of each embedded member.
C28_EmbeddedFound ==
    \A k \in DOMAIN sel.T :
        sel.T[k].kind = "st" =>
            \A i \in 1..Len(sel.T[k].embedded) :
                field(sel.T, k, sel.T[k].embedded[i].name) = 0

(***************************************************************************)
(* What Go selects on the types of SpecDepth, by the rules of the language *)
(* (selectors, method sets), read off the declarations and the embedding   *)
(* graph.                                                                  *)
(***************************************************************************)
\* An embedded type on an embedding path: the struct type, and whether the
\* methods with a pointer receiver are in reach (the path starts at a
\* pointer or passes an embedded pointer).
RECURSIVE GoLevelNext(_, _, _, _)
GoLevelNext(shape, sPtr, level, j) ==
    IF j > Len(level) THEN <<>>
    ELSE LET embeds == EmbedsOf(shape, sPtr, level[j].n)
         IN  [i \in 1..Len(embeds) |->
                 [n |-> embeds[i].to, addr |-> level[j].addr \/ embeds[i].ptr]]
             \o GoLevelNext(shape, sPtr, level, j + 1)

\* The embedded types d levels below root, one entry for each path.
RECURSIVE GoLevel(_, _, _, _, _)
GoLevel(shape, sPtr, root, addr, d) ==
    IF d = 0 THEN <<[n |-> root, addr |-> addr]>>
    ELSE GoLevelNext(shape, sPtr, GoLevel(shape, sPtr, root, addr, d - 1), 1)

\* Whether the type e declares the name itself: as a field or an embedded
\* field (kind "field"), or as a method of either receiver (kind "method").
GoDeclares(shape, sPtr, decl, e, kind, name) ==
    IF kind = "field"
    THEN \/ name = FieldX /\ <<e.n, FieldX>> \in decl
         \/ \E i \in 1..Len(EmbedsOf(shape, sPtr, e.n)) :
                NodeName[EmbedsOf(shape, sPtr, e.n)[i].to] = name
    ELSE name \in {MethodM, MethodPM} /\ <<e.n, name>> \in decl

\* The number of paths of length d from root that end at a declaration.
GoCount(shape, sPtr, decl, root, addr, kind, name, d) ==
    LET level == GoLevel(shape, sPtr, root, addr, d)
    IN  Cardinality({j \in 1..Len(level) :
                        GoDeclares(shape, sPtr, decl, level[j], kind, name)})

\* The depths at which the name is declared below root.  A shallowest
\* declaration is never deeper than the number of struct types.
GoDepths(shape, sPtr, decl, root, addr, kind, name) ==
    {d \in 0..Len(NodeName) :
        GoCount(shape, sPtr, decl, root, addr, kind, name, d) > 0}

GoShallowest(shape, sPtr, decl, root, addr, kind, name) ==
    CHOOSE d \in GoDepths(shape, sPtr, decl, root, addr, kind, name) :
        \A e \in GoDepths(shape, sPtr, decl, root, addr, kind, name) : d <= e

\* The name is declared at the shallowest depth on more than one path.
GoAmbiguous(shape, sPtr, decl, root, addr, kind, name) ==
    /\ GoDepths(shape, sPtr, decl, root, addr, kind, name) # {}
    /\ GoCount(shape, sPtr, decl, root, addr, kind, name,
               GoShallowest(shape, sPtr, decl, root, addr, kind, name)) > 1

\* The one shallowest declaration is a method with a pointer receiver that
\* is not in reach: the path starts at a value and passes no pointer.
GoOutOfReach(shape, sPtr, decl, root, addr, kind, name) ==
    /\ kind = "method" /\ name = MethodPM
    /\ LET level == GoLevel(shape, sPtr, root, addr,
                            GoShallowest(shape, sPtr, decl, root, addr, kind, name))
       IN  \E j \in 1..Len(level) :
               /\ GoDeclares(shape, sPtr, decl, level[j], kind, name)
               /\ ~level[j].addr

\* The depth of the selection, -1 when there is none, it is ambiguous, or
\* the method is not in the method set.
GoDepth(shape, sPtr, decl, root, addr, kind, name) ==
    IF GoDepths(shape, sPtr, decl, root, addr, kind, name) = {} THEN -1
    ELSE IF GoAmbiguous(shape, sPtr, decl, root, addr, kind, name) THEN -1
    ELSE IF GoOutOfReach(shape, sPtr, decl, root, addr, kind, name) THEN -1
    ELSE GoShallowest(shape, sPtr, decl, root, addr, kind, name)

\* The struct type behind a key asked, and whether the key is a pointer.
StructKeys == {DefOf(1), PtrOf(1), DefOf(2), PtrOf(2), LitOf(1)}
RootOf(k) == IF k = LitOf(1) THEN 1 ELSE k[1]
AddrOf(k) == k[2]

\* C24: the field query on a struct gives 0 for a field or an embedded
\* member of its own, else 1 + the smallest depth among its embedded
\* members, and -1 when the name is unreachable or reachable on two paths
\* of the same smallest depth, at whatever nesting level.
C24_FieldDepth ==
    (dq.called /\ dq.f = "field" /\ dq.k \in StructKeys)
    => dq.depth = GoDepth(dq.shape, dq.sPtr, dq.decl, RootOf(dq.k), AddrOf(dq.k),
                          "field", dq.name)

\* C25: the receiver rules.  A method with a value receiver is selectable
\* on T and *T, one with a pointer receiver on *T only; embedding T by
\* value promotes the value-receiver methods to S and both kinds to *S,
\* embedding *T promotes both to S and *S; a defined type over a defined
\* type or over a pointer has no methods; a pointer to a pointer selects
\* nothing.  (Where Go finds the name on one shallowest path or not at
\* all, the method query finds it exactly when the method is in the method
\* set.)
C25_ReceiverRules ==
    dq.called =>
        /\ (dq.f = "method" /\ dq.k \in StructKeys
             /\ ~GoAmbiguous(dq.shape, dq.sPtr, dq.decl, RootOf(dq.k), AddrOf(dq.k),
                             "method", dq.name))
            => (dq.depth > -1 <=>
                    GoDepth(dq.shape, dq.sPtr, dq.decl, RootOf(dq.k),
                            AddrOf(dq.k), "method", dq.name) > -1)
        /\ (dq.f = "method" /\ dq.k \in {DefDef, DefPtr}) => dq.depth = -1
        /\ dq.k = PtrPtr => dq.depth = -1

Rejects == pc = "draw" /\ pc' = "draw" /\ stack' # stack

C30_LoopEnds == (pc = "draw") ~> (pc = "loop")

====
